---- MODULE Spec2Model ----
(***************************************************************************)
(* A model of splink's execution and analysis engine:                      *)
(*   - DatabaseAPI (database_api.py): the pipeline executor, its two       *)
(*     execution modes and the intermediate table cache;                   *)
(*   - the blocking analysis (analyse_blocking.py, misc.py): cartesian     *)
(*     size, per-rule counts, cumulative counts and reduction ratio;       *)
(*   - the waterfall chart data (waterfall_chart.py);                      *)
(*   - the comparison templates (comparison_template_library.py).          *)
(* Spec is the DatabaseAPI state machine.  The other specifications apply  *)
(* one operation or one analysis function to inputs drawn from bounded     *)
(* sets.                                                                   *)
(***************************************************************************)
EXTENDS Integers, Sequences, FiniteSets, TLC

VARIABLES
    debug_mode,                 \* DatabaseAPI.debug_mode
    cache_uid,                  \* DatabaseAPI._cache_uid
    intermediate_table_cache,   \* DatabaseAPI._intermediate_table_cache
    queue,                      \* the pipeline's enqueued steps
    tables,                     \* the backend: the tables that exist
    calls,                      \* history: one entry per call of the DatabaseAPI
    threads,                    \* the requests in flight: each one's position
    blk,                        \* blocking analysis: input and output of the last call
    wf,                         \* waterfall: input and output of the last call
    tpl                         \* comparison template: arguments and comparison built

vars == <<debug_mode, cache_uid, intermediate_table_cache, queue, tables, calls, blk, wf, threads, tpl>>

dbVars == <<debug_mode, cache_uid, intermediate_table_cache, queue, tables, calls, threads>>

Idle == [phase |-> "idle"]

\* the sequences over S of length at most n
SeqsUpTo(S, n) == UNION {[1..k -> S] : k \in 0..n}

(***************************************************************************)
(* Bounds of the model.                                                    *)
(***************************************************************************)
MaxSteps == 3       \* steps enqueued in one pipeline
MaxCalls == 2       \* _execute_sql_pipeline calls in one session
MaxUid == 0         \* session salts 0..MaxUid
HashMod == 101      \* size of the truncated-hash space

(***************************************************************************)
(* Statement text.  A text is a sequence of tokens; a token is a name      *)
(* [t, h]: the word t, with h the hash suffix of a physical table name    *)
(* (NoHash for a plain word or a templated name).                          *)
(***************************************************************************)
NoHash == 0 - 1

W(s) == [t |-> s, h |-> NoHash]

Code(s) ==
    CASE s = "select" -> 3
      [] s = "count" -> 5
      [] s = "src" -> 7
      [] s = "t1" -> 11
      [] s = "t2" -> 13
      [] s = "WITH" -> 17
      [] s = "as" -> 19
      [] s = "src_phys" -> 23
      [] OTHER -> 29

RECURSIVE HashFrom(_, _)
HashFrom(text, acc) ==
    IF text = <<>> THEN acc
    ELSE HashFrom(Tail(text), (acc * 31 + Code(Head(text).t) + Head(text).h + 1) % HashMod)

\* hashlib.sha256((sql + self._cache_uid).encode("utf-8")).hexdigest()[:9]
Hash(sql, uid) == (HashFrom(sql, 7) * 31 + uid) % HashMod

\* f"{output_tablename_templated}_{hash}"
TableNameHash(templated, sql, uid) == [t |-> templated, h |-> Hash(sql, uid)]

(***************************************************************************)
(* The pipeline (queue of steps) and its compilation.                      *)
(***************************************************************************)
StepKinds ==
    { [sql |-> <<W("select"), W("src")>>, output_table_name |-> "t1"],
      [sql |-> <<W("count"), W("t1")>>, output_table_name |-> "t2"] }

SeedDf == [templated_name |-> "src", physical_name |-> W("src_phys")]

SeedChoices == { <<>>, <<SeedDf>> }

\* task.sql with the seed's templated name replaced by its physical name
ReplaceName(sql, df) ==
    [i \in DOMAIN sql |->
        IF sql[i] = W(df.templated_name) THEN df.physical_name ELSE sql[i]]

RECURSIVE ReplaceAll(_, _)
ReplaceAll(sql, dfs) ==
    IF dfs = <<>> THEN sql ELSE ReplaceAll(ReplaceName(sql, Head(dfs)), Tail(dfs))

GeneratePipelineParts(q, dfs) ==
    [i \in DOMAIN q |->
        [sql |-> ReplaceAll(q[i].sql, dfs), output_table_name |-> q[i].output_table_name]]

RECURSIVE WithParts(_)
WithParts(parts) ==
    IF parts = <<>> THEN <<>>
    ELSE <<W(Head(parts).output_table_name), W("as")>> \o Head(parts).sql
            \o WithParts(Tail(parts))

\* the composed statement: WITH <role> as (<sql>), ... <last sql>
GeneratePipeline(q, dfs) ==
    LET parts == GeneratePipelineParts(q, dfs)
        n == Len(parts)
    IN  IF n = 1 THEN parts[1].sql
        ELSE <<W("WITH")>> \o WithParts(SubSeq(parts, 1, n - 1)) \o parts[n].sql

(***************************************************************************)
(* The backend.  A table is [name, sql, serial, rows]: its physical name,  *)
(* the statement that created it, the call that created it and its rows.   *)
(* Rows are kept as the expression that yields them: a sequence of words,  *)
(* the operations applied, outermost first, to a table of input data.      *)
(* A call's running state st is [tables, sent, err, exc, df]: the          *)
(* backend's tables, the statements sent so far in this call, the type of  *)
(* the exception raised ("none" when none), the exception itself and the   *)
(* handle produced last.  failAt is the position, among the statements of  *)
(* the call, of a statement the backend fails on for reasons of its own    *)
(* (0: no such failure).                                                   *)
(***************************************************************************)
NoDf ==
    [templated_name |-> "", physical_name |-> W(""), created_by_splink |-> FALSE,
     sql_used_to_create |-> <<>>, serial |-> 0]

NoExc == [type |-> "none"]

\* the input data registered with the backend
BaseTables ==
    { [name |-> W("src_phys"), sql |-> <<>>, serial |-> 0, rows |-> <<"src_phys">>] }

Exists(tbls, name) == \E tb \in tbls : tb.name = name

Lookup(tbls, name) == CHOOSE tb \in tbls : tb.name = name

Failed(msg) == [ok |-> FALSE, rows |-> <<>>, msg |-> msg]

\* the table a name of a statement refers to: a CTE of the statement, else a
\* table of the backend
Resolve(ref, ctes, tbls) ==
    IF \E i \in DOMAIN ctes : ctes[i].name = ref
    THEN [ok |-> TRUE, rows |-> ctes[CHOOSE i \in DOMAIN ctes : ctes[i].name = ref].rows,
          msg |-> ""]
    ELSE IF Exists(tbls, ref)
    THEN [ok |-> TRUE, rows |-> Lookup(tbls, ref).rows, msg |-> ""]
    ELSE Failed("table does not exist")

\* <op> <ref>: the operation applied to the rows of the table referred to
SelectRows(op, ref, ctes, tbls) ==
    LET r == Resolve(ref, ctes, tbls)
    IN  IF r.ok THEN [r EXCEPT !.rows = <<op.t>> \o @] ELSE r

\* <name> as (<op> <ref>), ... <op> <ref>: every CTE is bound, in order, and
\* no name is given to two CTEs
RECURSIVE WithRows(_, _, _)
WithRows(text, ctes, tbls) ==
    IF Len(text) < 4 THEN SelectRows(text[1], text[2], ctes, tbls)
    ELSE LET made == SelectRows(text[3], text[4], ctes, tbls)
         IN  IF \E i \in DOMAIN ctes : ctes[i].name = text[1]
             THEN Failed("duplicate CTE name")
             ELSE IF ~made.ok THEN made
             ELSE WithRows(SubSeq(text, 5, Len(text)),
                           Append(ctes, [name |-> text[1], rows |-> made.rows]), tbls)

\* the rows a query yields on the tables of the backend
QueryRows(sql, tbls) ==
    IF Head(sql) = W("WITH") THEN WithRows(Tail(sql), <<>>, tbls)
    ELSE WithRows(sql, <<>>, tbls)

\* what the backend answers to a statement: the message of its error ("" when
\* it runs the statement) and the rows of the table made
BackendAnswer(st, stmt, failAt) ==
    IF Len(st.sent) + 1 = failAt THEN Failed("backend failure")
    ELSE IF stmt.op # "create" THEN [ok |-> TRUE, rows |-> <<>>, msg |-> ""]
    ELSE IF Exists(st.tables, stmt.name) THEN Failed("table already exists")
    ELSE QueryRows(stmt.sql, st.tables)

\* the state of the call after the backend has answered ans to stmt
AfterStatement(st, stmt, serial, ans) ==
    IF ~ans.ok
    THEN [st EXCEPT !.sent = Append(@, stmt), !.err = "BackendError",
                    !.exc = [type |-> "BackendError", message |-> ans.msg]]
    ELSE IF stmt.op = "drop"
         THEN [st EXCEPT !.sent = Append(@, stmt),
                         !.tables = {tb \in @ : tb.name # stmt.name}]
         ELSE [st EXCEPT !.sent = Append(@, stmt),
                         !.tables = @ \cup {[name |-> stmt.name, sql |-> stmt.sql,
                                             serial |-> serial, rows |-> ans.rows]}]

\* _run_sql_execution: the backend runs one statement, or raises
RunSqlExecution(st, stmt, failAt, serial) ==
    AfterStatement(st, stmt, serial, BackendAnswer(st, stmt, failAt))

\* what sqlglot's pretty printer does to a word: keywords in upper case
Upper(s) ==
    CASE s = "select" -> "SELECT"
      [] s = "count" -> "COUNT"
      [] s = "as" -> "AS"
      [] OTHER -> s

\* sqlglot.parse_one(final_sql, read=self.sql_dialect).sql(pretty=True)
Pretty(stmt) == [stmt EXCEPT !.sql = [i \in DOMAIN @ |-> [@[i] EXCEPT !.t = Upper(@)]]]

\* a slip in the wrapping: the message reports the reformatting, not the
\* error of the backend
WrapLosingError(stmt, templated_name, physical_name, e, parses) ==
    [type |-> "SplinkException", templated_name |-> templated_name,
     physical_name |-> physical_name,
     final_sql |-> IF parses THEN Pretty(stmt) ELSE stmt,
     error_was |-> IF parses THEN e.message ELSE "ParseError",
     cause |-> e]

\* the SplinkException raised from e: the statement, pretty printed when
\* sqlglot parses it (parses) and raw otherwise, and the message of e
Wrap(stmt, templated_name, physical_name, e, parses) ==
    [type |-> "SplinkException", templated_name |-> templated_name,
     physical_name |-> physical_name,
     final_sql |-> IF parses THEN Pretty(stmt) ELSE stmt,
     error_was |-> e.message,
     cause |-> e]

\* except Exception as e: ... raise SplinkException(...) from e
WrapIfRaised(r, stmt, templated_name, physical_name, parses) ==
    IF r.err = "BackendError"
    THEN [r EXCEPT !.err = "SplinkException",
                   !.exc = Wrap(stmt, templated_name, physical_name, @, parses)]
    ELSE r

\* log_and_run_sql_execution: any error of the backend becomes a SplinkException
LogAndRunSqlExecution(st, stmt, templated_name, physical_name, failAt, serial, parses) ==
    WrapIfRaised(RunSqlExecution(st, stmt, failAt, serial),
                 stmt, templated_name, physical_name, parses)

\* _delete_table_from_database: DROP TABLE IF EXISTS, run directly
DeleteTableFromDatabase(st, name, failAt, serial) ==
    RunSqlExecution(st, [op |-> "drop", name |-> name, sql |-> <<>>], failAt, serial)

\* CREATE TABLE <physical_name> AS <sql>, sent when the setup raised nothing
CreateAfterSetup(s1, sql, templated_name, physical_name, failAt, serial, parses) ==
    IF s1.err # "none" THEN s1
    ELSE LogAndRunSqlExecution(
             s1, [op |-> "create", name |-> physical_name, sql |-> sql],
             templated_name, physical_name, failAt, serial, parses)

\* _cleanup_for_execute_sql: the handle of the table made
CleanupForExecuteSql(s2, templated_name, physical_name, serial) ==
    IF s2.err # "none" THEN s2
    ELSE [s2 EXCEPT !.df = [templated_name |-> templated_name,
                            physical_name |-> physical_name,
                            created_by_splink |-> FALSE,
                            sql_used_to_create |-> <<>>,
                            serial |-> serial]]

\* execute_sql_against_backend: _setup_for_execute_sql, the CREATE TABLE AS and
\* _cleanup_for_execute_sql
ExecuteSqlAgainstBackend(st, sql, templated_name, physical_name, failAt, serial, parses) ==
    CleanupForExecuteSql(
        CreateAfterSetup(DeleteTableFromDatabase(st, physical_name, failAt, serial),
                         sql, templated_name, physical_name, failAt, serial, parses),
        templated_name, physical_name, serial)

\* a slip in the naming: the output role is the physical name in both modes
PhysicalNameTemplated(dbg, templated, table_name_hash) == W(templated)

\* the physical name: the templated name in debug mode, else the name
\* calculated from the hash of the statement
PhysicalName(dbg, templated, table_name_hash) ==
    IF dbg THEN W(templated) ELSE table_name_hash

\* splink_dataframe.created_by_splink = True; .sql_used_to_create = sql
MarkCreatedBySplink(r, sql) ==
    IF r.err # "none" THEN r
    ELSE [r EXCEPT !.df.created_by_splink = TRUE, !.df.sql_used_to_create = sql]

\* _sql_to_splink_dataframe; use_cache is not read
SqlToSplinkDataframe(st, sql, templated, use_cache, dbg, uid, failAt, serial, parses) ==
    MarkCreatedBySplink(
        ExecuteSqlAgainstBackend(
            st, sql, templated,
            PhysicalName(dbg, templated, TableNameHash(templated, sql, uid)),
            failAt, serial, parses),
        sql)

\* a slip in the loop: only the last part is run, as composed mode would
RunPartsLastOnly(st, parts, i, uid, failAt, serial, parses) ==
    IF parts = <<>> THEN st
    ELSE SqlToSplinkDataframe(st, parts[Len(parts)].sql, parts[Len(parts)].output_table_name,
                              FALSE, TRUE, uid, failAt, serial, parses)

\* the loop of debug mode over the parts of the pipeline, from part i on
RECURSIVE RunParts(_, _, _, _, _, _, _)
RunParts(st, parts, i, uid, failAt, serial, parses) ==
    IF i > Len(parts) \/ st.err # "none" THEN st
    ELSE RunParts(
             SqlToSplinkDataframe(st, parts[i].sql, parts[i].output_table_name,
                                  FALSE, TRUE, uid, failAt, serial, parses),
             parts, i + 1, uid, failAt, serial, parses)

PyRaise(st, e) == [st EXCEPT !.err = e, !.exc = [type |-> e]]

\* _execute_sql_pipeline up to (not including) pipeline.reset()
RunPipeline(q, tbls, dfs, use_cache, dbg, uid, failAt, serial, parses) ==
    LET st0 == [tables |-> tbls, sent |-> <<>>, err |-> "none", exc |-> NoExc, df |-> NoDf]
    IN  IF ~dbg
        THEN IF q = <<>> THEN PyRaise(st0, "IndexError")
             ELSE SqlToSplinkDataframe(st0, GeneratePipeline(q, dfs),
                                       q[Len(q)].output_table_name,
                                       use_cache, FALSE, uid, failAt, serial, parses)
        ELSE RunParts(st0, GeneratePipelineParts(q, dfs), 1, uid, failAt, serial, parses)

\* a slip in the reset: the pipeline is reset whether or not there was an error
ResetAlways(err) == TRUE

\* pipeline.reset() is reached when nothing was raised before it
ResetReached(err) == err = "none"

ResetEvent == [op |-> "reset", name |-> W(""), sql |-> <<>>]

\* the statement text a call asks for: the composed statement, or the last part
RequestedSql(q, dfs, dbg) ==
    IF q = <<>> THEN <<>>
    ELSE IF dbg THEN GeneratePipelineParts(q, dfs)[Len(q)].sql
    ELSE GeneratePipeline(q, dfs)

\* return splink_dataframe: a name never assigned when the loop ran no step
ReturnSplinkDataframe(r, q, dbg) ==
    IF r.err = "none" /\ dbg /\ q = <<>> THEN PyRaise(r, "UnboundLocalError") ELSE r

\* the record of a call that ended in state end, with its pipeline reset or not
CallRecord(end, reset, sql, use_cache, dbg, failAt, parses) ==
    [debug |-> dbg, use_cache |-> use_cache, failAt |-> failAt,
     parses |-> parses, sql |-> sql,
     sent |-> end.sent,
     events |-> IF reset THEN Append(end.sent, ResetEvent) ELSE end.sent,
     err |-> end.err, exc |-> end.exc,
     df |-> IF end.err = "none" THEN end.df ELSE NoDf,
     rows |-> IF end.err = "none"
              THEN Lookup(end.tables, end.df.physical_name).rows
              ELSE <<>>]

\* pipeline.reset() and the return, after the statements have left state r
ResetAndReturn(r, q, sql, use_cache, dbg, failAt, parses) ==
    [tables |-> r.tables,
     queue |-> IF ResetReached(r.err) THEN <<>> ELSE q,
     call |-> CallRecord(ReturnSplinkDataframe(r, q, dbg), ResetReached(r.err),
                         sql, use_cache, dbg, failAt, parses)]

\* _execute_sql_pipeline(pipeline, input_dataframes, use_cache) as a whole:
\* the tables it leaves and the record of the call; events are the statements
\* sent and the reset of the pipeline, in the order they happen
ExecuteCall(q, tbls, dfs, use_cache, dbg, uid, failAt, serial, parses) ==
    ResetAndReturn(RunPipeline(q, tbls, dfs, use_cache, dbg, uid, failAt, serial, parses),
                   q, RequestedSql(q, dfs, dbg), use_cache, dbg, failAt, parses)

(***************************************************************************)
(* The DatabaseAPI state machine.                                          *)
(***************************************************************************)
InitDb ==
    /\ debug_mode \in BOOLEAN
    /\ cache_uid \in 0..MaxUid
    /\ intermediate_table_cache = {}
    /\ queue = <<>>
    /\ tables = BaseTables
    /\ calls = <<>>
    /\ threads = <<>>

Init ==
    /\ InitDb
    /\ blk = Idle
    /\ wf = Idle
    /\ tpl = Idle

\* pipeline.enqueue_sql(sql, output_table_name)
Enqueue ==
    /\ Len(calls) < MaxCalls
    /\ Len(queue) < MaxSteps
    /\ \E step \in StepKinds : queue' = Append(queue, step)
    /\ UNCHANGED <<debug_mode, cache_uid, intermediate_table_cache, tables, calls, blk, wf, threads, tpl>>

\* pipeline.reset(), called by the caller
Reset ==
    /\ queue # <<>>
    /\ queue' = <<>>
    /\ UNCHANGED <<debug_mode, cache_uid, intermediate_table_cache, tables, calls, blk, wf, threads, tpl>>

\* db_api.debug_mode = b
SetDebugMode ==
    /\ calls # <<>>
    /\ Len(calls) < MaxCalls
    /\ debug_mode' = ~debug_mode
    /\ UNCHANGED <<cache_uid, intermediate_table_cache, queue, tables, calls, blk, wf, threads, tpl>>

\* the call ends with outcome x: the backend and the pipeline are as the call
\* left them.  A failure is injected only at a statement the call sends, and
\* the outcome of the reformatting is drawn only when there is an error to wrap
Returns(x) ==
    /\ x.call.failAt <= Len(x.call.sent)
    /\ x.call.parses \/ x.call.err = "SplinkException"
    /\ tables' = x.tables
    /\ queue' = x.queue
    /\ calls' = Append(calls, x.call)

\* _execute_sql_pipeline(pipeline, input_dataframes, use_cache)
ExecuteSqlPipeline ==
    /\ Len(calls) < MaxCalls
    /\ \E dfs \in SeedChoices, use_cache \in BOOLEAN, failAt \in 0..(2 * MaxSteps),
          parses \in BOOLEAN :
        Returns(ExecuteCall(queue, tables, dfs, use_cache, debug_mode, cache_uid,
                            failAt, Len(calls) + 1, parses))
    /\ UNCHANGED <<debug_mode, cache_uid, intermediate_table_cache, blk, wf, threads, tpl>>

Next ==
    \/ Enqueue
    \/ Reset
    \/ SetDebugMode
    \/ ExecuteSqlPipeline

Spec == Init /\ [][Next]_vars

\* the first call of a session
ExecuteSqlPipelineOnce ==
    /\ calls = <<>>
    /\ ExecuteSqlPipeline

NextCall ==
    \/ Enqueue
    \/ Reset
    \/ ExecuteSqlPipelineOnce

\* one call of _execute_sql_pipeline on every pipeline
SpecCall == Init /\ [][NextCall]_vars

\* tables that earlier executions in debug mode have left in the backend
LeftoverTables ==
    { [name |-> W("t1"), sql |-> <<W("select"), W("src_phys")>>, serial |-> 0,
       rows |-> <<"select", "src_phys">>],
      [name |-> W("t2"), sql |-> <<W("count"), W("t1")>>, serial |-> 0,
       rows |-> <<"count", "select", "src_phys">>] }

InitModes ==
    /\ debug_mode = FALSE
    /\ cache_uid \in 0..MaxUid
    /\ intermediate_table_cache = {}
    /\ queue \in SeqsUpTo(StepKinds, MaxSteps)
    /\ tables \in {BaseTables \cup left : left \in SUBSET LeftoverTables}
    /\ calls = <<>>
    /\ threads = <<>>
    /\ blk = Idle
    /\ wf = Idle
    /\ tpl = Idle

\* the same pipeline and seeds executed by _execute_sql_pipeline in composed
\* mode and in debug mode, each on its own copy of the session; the backend
\* has no failure of its own
ExecuteInBothModes ==
    /\ calls = <<>>
    /\ \E dfs \in SeedChoices, use_cache \in BOOLEAN :
        calls' = << ExecuteCall(queue, tables, dfs, use_cache, FALSE, cache_uid,
                                0, 1, TRUE).call,
                    ExecuteCall(queue, tables, dfs, use_cache, TRUE, cache_uid,
                                0, 2, TRUE).call >>
    /\ UNCHANGED <<debug_mode, cache_uid, intermediate_table_cache, queue, tables, blk, wf, threads, tpl>>

NextModes == ExecuteInBothModes

SpecModes == InitModes /\ [][NextModes]_vars

(***************************************************************************)
(* The intermediate table cache: a dictionary, kept as the set of its      *)
(* entries [key, df], no two with the same key.                            *)
(***************************************************************************)
MaxCacheKeys == 3       \* keys the cache may hold

CachedHandles ==
    [templated_name : {"t1", "t2"}, physical_name : {W("p1"), W("p2")}]

GivenHandles ==
    [templated_name : {"t1", "t2"}, physical_name : {W("p1"), W("p2"), W("p3")}]

\* the dictionaries from some of the keys to handles
CacheChoices ==
    UNION {{{[key |-> k, df |-> f[k]] : k \in ks} : f \in [ks -> CachedHandles]} :
            ks \in SUBSET (1..MaxCacheKeys)}

\* a slip in the scan: the handle is taken to sit under one key only
KeysToDeleteFirstOnly(cache, splink_dataframe) ==
    LET ks == {e.key : e \in {x \in cache :
                                x.df.physical_name = splink_dataframe.physical_name}}
    IN  IF ks = {} THEN {} ELSE {CHOOSE k \in ks : \A j \in ks : k <= j}

\* the keys whose handle has the physical name of splink_dataframe
KeysToDelete(cache, splink_dataframe) ==
    {e.key : e \in {x \in cache : x.df.physical_name = splink_dataframe.physical_name}}

\* for k in keys_to_delete: del self._intermediate_table_cache[k]
DeleteKeys(cache, keys_to_delete) == {e \in cache : e.key \notin keys_to_delete}

InitCache ==
    /\ debug_mode = FALSE
    /\ cache_uid = 0
    /\ intermediate_table_cache \in CacheChoices
    /\ queue = <<>>
    /\ tables = BaseTables
    /\ calls = <<>>
    /\ threads = <<>>
    /\ blk = Idle
    /\ wf = Idle
    /\ tpl = Idle

\* _remove_splinkdataframe_from_cache(splink_dataframe)
RemoveSplinkdataframeFromCache ==
    /\ Len(calls) < MaxCalls
    /\ \E splink_dataframe \in GivenHandles :
        LET after == DeleteKeys(intermediate_table_cache,
                                KeysToDelete(intermediate_table_cache, splink_dataframe))
        IN  /\ intermediate_table_cache' = after
            /\ calls' = Append(calls, [op |-> "remove", handle |-> splink_dataframe,
                                       before |-> intermediate_table_cache,
                                       after |-> after])
    /\ UNCHANGED <<debug_mode, cache_uid, queue, tables, blk, wf, threads, tpl>>

NextCache == RemoveSplinkdataframeFromCache

SpecCache == InitCache /\ [][NextCache]_vars

(***************************************************************************)
(* Requests that run _sql_to_splink_dataframe at the same time, as a host  *)
(* program with several threads would.  The code takes no lock; a thread   *)
(* is interleaved with the others between the statements it sends to the   *)
(* backend.  A thread is [sql, templated_name, pc, err].                   *)
(***************************************************************************)
MaxThreads == 2         \* requests in flight

RequestChoices ==
    { [sql |-> <<W("select"), W("src_phys")>>, templated_name |-> "t1"],
      [sql |-> <<W("count"), W("src_phys")>>, templated_name |-> "t2"],
      [sql |-> <<W("count"), W("t0")>>, templated_name |-> "t2"] }

InitConcurrent ==
    /\ debug_mode \in BOOLEAN
    /\ cache_uid \in 0..MaxUid
    /\ intermediate_table_cache = {}
    /\ queue = <<>>
    /\ tables = BaseTables
    /\ calls = <<>>
    /\ threads \in [1..MaxThreads ->
                      {[sql |-> rq.sql, templated_name |-> rq.templated_name,
                        pc |-> "start", err |-> "none"] : rq \in RequestChoices}]
    /\ blk = Idle
    /\ wf = Idle
    /\ tpl = Idle

\* the physical name thread t calculates
ThreadPhysicalName(t) ==
    PhysicalName(debug_mode, threads[t].templated_name,
                 TableNameHash(threads[t].templated_name, threads[t].sql, cache_uid))

ThreadState == [tables |-> tables, sent |-> <<>>, err |-> "none", exc |-> NoExc, df |-> NoDf]

\* thread t runs _setup_for_execute_sql: DROP TABLE IF EXISTS
SetupForExecuteSql(t) ==
    /\ threads[t].pc = "start"
    /\ LET r == DeleteTableFromDatabase(ThreadState, ThreadPhysicalName(t), 0, t)
       IN  /\ tables' = r.tables
           /\ threads' = [threads EXCEPT ![t].pc = "setup done"]
    /\ UNCHANGED <<debug_mode, cache_uid, intermediate_table_cache, queue, calls, blk, wf, tpl>>

\* thread t has its answer r: the handle, or the SplinkException
ThreadCreated(t, r) ==
    /\ tables' = r.tables
    /\ threads' = [threads EXCEPT ![t].pc = IF r.err = "none" THEN "done" ELSE "raised",
                                  ![t].err = r.err]

\* thread t runs log_and_run_sql_execution on its CREATE TABLE ... AS
CreateTableAs(t) ==
    /\ threads[t].pc = "setup done"
    /\ ThreadCreated(t, LogAndRunSqlExecution(
                            ThreadState,
                            [op |-> "create", name |-> ThreadPhysicalName(t),
                             sql |-> threads[t].sql],
                            threads[t].templated_name, ThreadPhysicalName(t), 0, t, TRUE))
    /\ UNCHANGED <<debug_mode, cache_uid, intermediate_table_cache, queue, calls, blk, wf, tpl>>

NextConcurrent ==
    \/ \E t \in DOMAIN threads : SetupForExecuteSql(t)
    \/ \E t \in DOMAIN threads : CreateTableAs(t)

SpecConcurrent == InitConcurrent /\ [][NextConcurrent]_vars

(***************************************************************************)
(* register_multiple_tables.  An input is [is_str, name]: a table name     *)
(* (a string: the table is registered already) or a frame of data to be    *)
(* registered under its alias.  The running state of a call is [tables,    *)
(* existing_tables, checked, deleted, registered, result, err]; checked,   *)
(* deleted and registered list the positions of the inputs for which       *)
(* table_exists_in_database, _delete_table_from_database and               *)
(* _table_registration were called.                                        *)
(***************************************************************************)
MaxInputs == 2      \* inputs given to one call of register_multiple_tables

InputKinds ==
    { [is_str |-> TRUE, name |-> "a"], [is_str |-> TRUE, name |-> "src_phys"],
      [is_str |-> FALSE, name |-> "frame1"], [is_str |-> FALSE, name |-> "frame2"] }

AliasKinds == {"a", "b"}

\* tables registered with the backend by earlier calls
RegisteredBefore ==
    {[name |-> W(n), sql |-> <<>>, serial |-> 0, rows |-> <<n>>] : n \in AliasKinds}

\* a slip in the first loop: the table is deleted before overwrite is looked at
OnExistingDeleteFirst(st, i, alias, overwrite) ==
    [st EXCEPT !.existing_tables = IF ~overwrite THEN Append(@, alias) ELSE @,
               !.tables = {tb \in @ : tb.name # W(alias)},
               !.deleted = Append(@, i)]

\* if exists: if not overwrite: existing_tables.append(alias)
\*            else: self._delete_table_from_database(alias)
OnExisting(st, i, alias, overwrite) ==
    IF ~overwrite THEN [st EXCEPT !.existing_tables = Append(@, alias)]
    ELSE [st EXCEPT !.tables = {tb \in @ : tb.name # W(alias)},
                    !.deleted = Append(@, i)]

\* exists = self.table_exists_in_database(alias), and what follows from it
CheckAlias(st, i, alias, overwrite) ==
    IF Exists(st.tables, W(alias))
    THEN OnExisting([st EXCEPT !.checked = Append(@, i)], i, alias, overwrite)
    ELSE [st EXCEPT !.checked = Append(@, i)]

\* the first loop over zip(input_tables, input_aliases), from position i on
RECURSIVE CheckExisting(_, _, _, _, _)
CheckExisting(st, input_tables, input_aliases, overwrite, i) ==
    IF i > Len(input_tables) \/ i > Len(input_aliases) THEN st
    ELSE CheckExisting(IF input_tables[i].is_str THEN st
                       ELSE CheckAlias(st, i, input_aliases[i], overwrite),
                       input_tables, input_aliases, overwrite, i + 1)

\* self._table_registration(table, alias): the frame becomes the table alias,
\* in place of any table of that name
TableRegistration(st, i, table, alias, serial) ==
    [st EXCEPT !.tables = {tb \in @ : tb.name # W(alias)}
                          \cup {[name |-> W(alias), sql |-> <<>>, serial |-> serial,
                                 rows |-> <<table.name>>]},
               !.registered = Append(@, i)]

\* tables_as_splink_dataframes[alias] = self.table_to_splink_dataframe(alias, table)
SetHandle(st, alias, physical) ==
    [st EXCEPT !.result =
        [a \in DOMAIN @ \cup {alias} |->
            IF a = alias THEN [templated_name |-> alias, physical_name |-> W(physical)]
            ELSE @[a]]]

\* the body of the second loop for input i
RegisterOne(st, i, table, alias, serial) ==
    IF table.is_str THEN SetHandle(st, alias, table.name)
    ELSE SetHandle(TableRegistration(st, i, table, alias, serial), alias, alias)

\* the second loop over zip(input_tables, input_aliases), from position i on
RECURSIVE RegisterAll(_, _, _, _, _)
RegisterAll(st, input_tables, input_aliases, serial, i) ==
    IF i > Len(input_tables) \/ i > Len(input_aliases) THEN st
    ELSE RegisterAll(RegisterOne(st, i, input_tables[i], input_aliases[i], serial),
                     input_tables, input_aliases, serial, i + 1)

\* if existing_tables: raise ValueError(msg); else the second loop
RaiseOrRegister(st, input_tables, input_aliases, serial) ==
    IF st.existing_tables # <<>> THEN [st EXCEPT !.err = "ValueError"]
    ELSE RegisterAll(st, input_tables, input_aliases, serial, 1)

\* register_multiple_tables(input_tables, input_aliases, overwrite)
RegisterMultipleTables(tbls, input_tables, input_aliases, overwrite, serial) ==
    RaiseOrRegister(
        CheckExisting([tables |-> tbls, existing_tables |-> <<>>, checked |-> <<>>,
                       deleted |-> <<>>, registered |-> <<>>, result |-> <<>>,
                       err |-> "none"],
                      input_tables, input_aliases, overwrite, 1),
        input_tables, input_aliases, serial)

InitRegister ==
    /\ debug_mode = FALSE
    /\ cache_uid = 0
    /\ intermediate_table_cache = {}
    /\ queue = <<>>
    /\ tables \in {BaseTables \cup reg : reg \in SUBSET RegisteredBefore}
    /\ calls = <<>>
    /\ threads = <<>>
    /\ blk = Idle
    /\ wf = Idle
    /\ tpl = Idle

\* the call has ended in state r
Registered(r, input_tables, input_aliases, overwrite) ==
    /\ tables' = r.tables
    /\ calls' = Append(calls, [op |-> "register", input_tables |-> input_tables,
                               input_aliases |-> input_aliases, overwrite |-> overwrite,
                               before |-> tables, out |-> r])

\* db_api.register_multiple_tables(input_tables, input_aliases, overwrite),
\* one alias for each input
RegisterMultipleTablesCall ==
    /\ calls = <<>>
    /\ \E input_tables \in SeqsUpTo(InputKinds, MaxInputs), overwrite \in BOOLEAN :
        \E input_aliases \in [DOMAIN input_tables -> AliasKinds] :
            Registered(RegisterMultipleTables(tables, input_tables, input_aliases,
                                              overwrite, 1),
                       input_tables, input_aliases, overwrite)
    /\ UNCHANGED <<debug_mode, cache_uid, intermediate_table_cache, queue, blk, wf, threads, tpl>>

NextRegister == RegisterMultipleTablesCall

SpecRegister == InitRegister /\ [][NextRegister]_vars

(***************************************************************************)
(* Blocking analysis (misc.py, analyse_blocking.py).                       *)
(*                                                                         *)
(* Numbers.  Python's true division yields a float; the model keeps such   *)
(* a value exact, as a fraction [n, d] with d > 0.  An outcome is          *)
(* [err, val]: the exception raised ("none" when none) and the value.      *)
(***************************************************************************)
MaxRows == 3        \* rows of one input dataset
MaxDatasets == 2    \* input datasets
MaxRules == 3       \* blocking rules in one list

Frac(n, d) == [n |-> n, d |-> d]

Zero == Frac(0, 1)

Ok(v) == [err |-> "none", val |-> v]

Raise(e) == [err |-> e, val |-> Zero]

RECURSIVE SumSeq(_)
SumSeq(s) == IF s = <<>> THEN 0 ELSE Head(s) + SumSeq(Tail(s))

Min(a, b) == IF a < b THEN a ELSE b

\* int(x) of a float: truncation towards zero
IntOf(q) == IF q.n >= 0 THEN q.n \div q.d ELSE 0 - ((0 - q.n) \div q.d)

\* round(x, 6) of the fraction n/d, in millionths; halves go to the even
\* neighbour
Round6(q) ==
    LET m == q.n * 1000000
        lo == m \div q.d
        twice == 2 * (m % q.d)
    IN  IF twice < q.d THEN lo
        ELSE IF twice > q.d THEN lo + 1
        ELSE IF lo % 2 = 0 THEN lo ELSE lo + 1

\* a slip in the dedupe_only formula: n * (n + 1) / 2
CartesianDedupePlusOne(count) == Frac(count * (count + 1), 2)

\* n[0]["count"] * (n[0]["count"] - 1) / 2
CartesianDedupe(count) == Frac(count * (count - 1), 2)

\* a slip in the link_only formula: the squares are not subtracted
CartesianLinkOnlyNoSquares(counts) == Frac(SumSeq(counts) * SumSeq(counts), 2)

\* (sum of counts ** 2 - sum of squared counts) / 2
CartesianLinkOnly(counts) ==
    Frac(SumSeq(counts) * SumSeq(counts)
            - SumSeq([i \in DOMAIN counts |-> counts[i] * counts[i]]), 2)

\* a slip in the link_and_dedupe formula: the first frame's count stands for
\* the total
CartesianLinkAndDedupeFirstFrame(counts) ==
    IF counts = <<>> THEN Frac(0, 2) ELSE Frac(counts[1] * (counts[1] - 1), 2)

\* total_rows * (total_rows - 1) / 2
CartesianLinkAndDedupe(counts) == Frac(SumSeq(counts) * (SumSeq(counts) - 1), 2)

\* calculate_cartesian(df_rows, link_type)
CalculateCartesian(df_rows, link_type) ==
    LET counts == [i \in DOMAIN df_rows |-> df_rows[i].count]
    IN  IF link_type = "link_only"
        THEN IF Len(df_rows) <= 1 THEN Raise("ValueError")
             ELSE Ok(CartesianLinkOnly(counts))
        ELSE IF link_type = "dedupe_only"
        THEN IF Len(df_rows) > 1 THEN Raise("ValueError")
             ELSE IF df_rows = <<>> THEN Raise("IndexError")
             ELSE Ok(CartesianDedupe(df_rows[1].count))
        ELSE IF link_type = "link_and_dedupe"
        THEN Ok(CartesianLinkAndDedupe(counts))
        ELSE Raise("ValueError")

\* calculate_reduction_ratio(N, cartesian): 1 - (N / cartesian)
CalculateReductionRatio(N, cartesian) ==
    IF cartesian.n = 0 THEN Raise("ZeroDivisionError")
    ELSE Ok(Frac(cartesian.n - N * cartesian.d, cartesian.n))

(***************************************************************************)
(* The input data and the queries of the blocking analysis.  A row is      *)
(* [ds, i]: its source dataset and its position in it; its columns a and b *)
(* are functions of these.  A blocking rule is a predicate on a pair of    *)
(* rows.                                                                   *)
(***************************************************************************)
LinkTypes == {"dedupe_only", "link_only", "link_and_dedupe"}

RuleKinds == {"1=1", "l.a = r.a", "l.b = r.b"}

SettingsRules == <<"l.a = r.a">>

ColA(row) == row.i % 2

ColB(row) == (row.i + row.ds) % 2

InputRows(sizes) == UNION {{[ds |-> d, i |-> i] : i \in 1..sizes[d]} : d \in DOMAIN sizes}

UidLess(l, r) == l.ds < r.ds \/ (l.ds = r.ds /\ l.i < r.i)

\* _sql_gen_where_condition(link_type, unique_id_input_columns)
WhereCondition(link_type, l, r) ==
    IF link_type = "link_only" THEN UidLess(l, r) /\ l.ds # r.ds ELSE UidLess(l, r)

RuleHolds(rule, l, r) ==
    CASE rule = "1=1" -> TRUE
      [] rule = "l.a = r.a" -> ColA(l) = ColA(r)
      [] rule = "l.b = r.b" -> ColB(l) = ColB(r)
      [] OTHER -> FALSE

\* block_using_rules_sql: the union over the rules of the pairs each rule
\* joins, a pair being kept only under the first rule that matches it
BlockedData(rules, rows, link_type) ==
    {x \in [l : rows, r : rows, match_key : 0..(Len(rules) - 1)] :
        /\ WhereCondition(link_type, x.l, x.r)
        /\ RuleHolds(rules[x.match_key + 1], x.l, x.r)
        /\ \A j \in 1..x.match_key : ~RuleHolds(rules[j], x.l, x.r)}

\* select count(*) as count from concat [group by source_dataset]
RECURSIVE GroupBySourceDataset(_, _)
GroupBySourceDataset(sizes, d) ==
    IF d > Len(sizes) THEN <<>>
    ELSE (IF sizes[d] > 0 THEN <<[count |-> sizes[d]]>> ELSE <<>>)
            \o GroupBySourceDataset(sizes, d + 1)

CartesianCountQuery(sizes, link_type) ==
    IF link_type = "dedupe_only" THEN <<[count |-> SumSeq(sizes)]>>
    ELSE GroupBySourceDataset(sizes, 1)

\* select count(*) as row_count, match_key from blocked group by match_key
\* order by cast(match_key as int) asc
RECURSIVE CountCumulativeBlocks(_, _, _)
CountCumulativeBlocks(blocked, k, R) ==
    IF k >= R THEN <<>>
    ELSE LET c == Cardinality({x \in blocked : x.match_key = k})
         IN  (IF c > 0 THEN <<[row_count |-> c, match_key |-> k]>> ELSE <<>>)
                \o CountCumulativeBlocks(blocked, k + 1, R)

(***************************************************************************)
(* cumulative_comparisons_generated_by_blocking_rules, after the queries.  *)
(* Python indexes lists from 0, TLA+ sequences from 1.                     *)
(***************************************************************************)

\* a slip in the insertion: the zero is appended
PyAppend(list, n, v) == Append(list, v)

\* list.insert(n, v)
PyInsert(list, n, v) ==
    LET k == Min(n, Len(list))
    IN  SubSeq(list, 1, k) \o <<v>> \o SubSeq(list, k + 1, Len(list))

\* [x for x in range(len(brs_as_objs)) if x not in br_keys], from x on
RECURSIVE MissingBr(_, _, _)
MissingBr(br_keys, x, R) ==
    IF x >= R THEN <<>>
    ELSE (IF \E i \in DOMAIN br_keys : br_keys[i] = x THEN <<>> ELSE <<x>>)
            \o MissingBr(br_keys, x + 1, R)

\* for n in missing_br: br_count.insert(n, 0)
RECURSIVE InsertMissing(_, _)
InsertMissing(br_count, missing_br) ==
    IF missing_br = <<>> THEN br_count
    ELSE InsertMissing(PyInsert(br_count, Head(missing_br), 0), Tail(missing_br))

FillMissing(br_count, br_keys, R) ==
    IF Len(br_count) # R THEN InsertMissing(br_count, MissingBr(br_keys, 0, R))
    ELSE br_count

\* a slip in the accumulation: the sum is overwritten by the row count
AccumulateOverwrite(cumulative_sum, row) == row

\* cumulative_sum += row
Accumulate(cumulative_sum, row) == cumulative_sum + row

\* the wrapping loop over zip(br_count, brs_as_objs), from position i on;
\* acc is br_comparisons so far
RECURSIVE WrapOutput(_, _, _, _, _, _, _)
WrapOutput(br_count, brs, i, cumulative_sum, cartesian, output_chart, acc) ==
    IF i > Min(Len(br_count), Len(brs)) THEN Ok(acc)
    ELSE LET row == br_count[i]
             sum == Accumulate(cumulative_sum, row)
             rr == CalculateReductionRatio(sum, cartesian)
         IN  IF ~output_chart
             THEN WrapOutput(br_count, brs, i + 1, cumulative_sum, cartesian, output_chart,
                             Append(acc, [row_count |-> row, rule |-> brs[i]]))
             ELSE IF rr.err # "none" THEN [err |-> rr.err, val |-> acc]
             ELSE WrapOutput(br_count, brs, i + 1, sum, cartesian, output_chart,
                             Append(acc, [row_count |-> row, rule |-> brs[i],
                                          cumulative_rows |-> sum,
                                          cartesian |-> IntOf(cartesian),
                                          reduction_ratio |-> Round6(rr.val),
                                          start |-> sum - row]))

NotComputed == [err |-> "not computed", val |-> Zero]

\* cumulative_comparisons_generated_by_blocking_rules(linker, blocking_rules,
\* output_chart): the record of what the call computed
CumulativeComparisons(in) ==
    LET brs == IF in.blocking_rules # <<>> THEN in.blocking_rules ELSE SettingsRules
        row_count_df == CartesianCountQuery(in.sizes, in.link_type)
        cartesian == IF in.output_chart
                     THEN CalculateCartesian(row_count_df, in.link_type)
                     ELSE NotComputed
        blocked == BlockedData(brs, InputRows(in.sizes), in.link_type)
        br_n == CountCumulativeBlocks(blocked, 0, Len(brs))
        br_keys == [i \in DOMAIN br_n |-> br_n[i].match_key]
        br_count == FillMissing([i \in DOMAIN br_n |-> br_n[i].row_count], br_keys, Len(brs))
        out == WrapOutput(br_count, brs, 1, 0, cartesian.val, in.output_chart, <<>>)
        failed == in.output_chart /\ cartesian.err # "none"
    IN  [phase |-> "cumulative", in |-> in, brs |-> brs, cartesian |-> cartesian,
         br_n |-> IF failed THEN <<>> ELSE br_n,
         err |-> IF failed THEN cartesian.err ELSE out.err,
         out |-> IF failed \/ out.err # "none" THEN <<>> ELSE out.val]

(***************************************************************************)
(* The blocking analysis applied to inputs drawn from bounded sets.        *)
(***************************************************************************)
ScenarioA ==
    [phase |-> "input", link_type |-> "dedupe_only", sizes |-> <<10>>,
     blocking_rules |-> <<"1=1">>, output_chart |-> TRUE]

ScenarioB ==
    [phase |-> "input", link_type |-> "link_only", sizes |-> <<3, 4>>,
     blocking_rules |-> <<"1=1">>, output_chart |-> TRUE]

BlockingInputs ==
    {[phase |-> "input", link_type |-> lt, sizes |-> sz, blocking_rules |-> br,
      output_chart |-> oc] :
        lt \in LinkTypes \cup {"other"},
        sz \in SeqsUpTo(0..MaxRows, MaxDatasets),
        br \in SeqsUpTo(RuleKinds, MaxRules),
        oc \in BOOLEAN}
    \cup {ScenarioA, ScenarioB}

IdleDb ==
    /\ debug_mode = FALSE
    /\ cache_uid = 0
    /\ intermediate_table_cache = {}
    /\ queue = <<>>
    /\ tables = BaseTables
    /\ calls = <<>>
    /\ threads = <<>>

InitBlocking ==
    /\ IdleDb
    /\ wf = Idle
    /\ blk \in BlockingInputs
    /\ tpl = Idle

\* calculate_cartesian applied to one count per input frame
CalculateCartesianCall ==
    /\ blk.phase = "input"
    /\ blk' = [phase |-> "cartesian", in |-> blk,
               out |-> CalculateCartesian([i \in DOMAIN blk.sizes |-> [count |-> blk.sizes[i]]],
                                          blk.link_type)]
    /\ UNCHANGED <<dbVars, wf, tpl>>

\* the linker holds at least one input table, exactly one when it dedupes,
\* and its link type is one of the three
ValidLinker(in) ==
    /\ in.link_type \in LinkTypes
    /\ in.sizes # <<>>
    /\ in.link_type = "dedupe_only" => Len(in.sizes) = 1

CumulativeComparisonsCall ==
    /\ blk.phase = "input"
    /\ ValidLinker(blk)
    /\ blk' = CumulativeComparisons(blk)
    /\ UNCHANGED <<dbVars, wf, tpl>>

NextBlocking ==
    \/ CalculateCartesianCall
    \/ CumulativeComparisonsCall

SpecBlocking == InitBlocking /\ [][NextBlocking]_vars

(***************************************************************************)
(* Waterfall chart data (waterfall_chart.py).                              *)
(*                                                                         *)
(* A Bayes factor or probability is a fraction [n, d]; d = 0 stands for    *)
(* math.inf.  A match weight (a base 2 logarithm) is [inf, k]: infinite,   *)
(* or the whole number k; the Bayes factors of the model are powers of     *)
(* two, so every logarithm taken is exact.  An optional value is <<>>      *)
(* (None) or <<v>>.                                                        *)
(***************************************************************************)
MaxComparisons == 2     \* comparisons in the settings
MaxRecords == 2         \* scored records passed to records_to_waterfall_data

None == <<>>

Some(v) == <<v>>

Inf == Frac(1, 0)

Fin(k) == [inf |-> FALSE, k |-> k]

PosInf == [inf |-> TRUE, k |-> 0]

AddW(a, b) == IF a.inf \/ b.inf THEN PosInf ELSE Fin(a.k + b.k)

RECURSIVE SumW(_)
SumW(ws) == IF ws = <<>> THEN Fin(0) ELSE AddW(Head(ws), SumW(Tail(ws)))

RECURSIVE TwoTo(_)
TwoTo(k) == IF k = 0 THEN 1 ELSE 2 * TwoTo(k - 1)

\* 2 ** weight
Pow2(w) ==
    IF w.inf THEN Inf
    ELSE IF w.k >= 0 THEN Frac(TwoTo(w.k), 1) ELSE Frac(1, TwoTo(0 - w.k))

\* the whole number k with n = 2^k * d
RECURSIVE Log2Exact(_, _)
Log2Exact(n, d) ==
    IF n = d THEN 0
    ELSE IF n > d THEN 1 + Log2Exact(n, 2 * d)
    ELSE Log2Exact(2 * n, d) - 1

\* math.log2(x): a ValueError for 0, inf for inf
MathLog2(q) ==
    IF q.d = 0 THEN [err |-> "none", val |-> PosInf]
    ELSE IF q.n <= 0 THEN [err |-> "ValueError", val |-> Fin(0)]
    ELSE [err |-> "none", val |-> Fin(Log2Exact(q.n, q.d))]

\* prob_to_bayes_factor(prob): prob / (1 - prob) if prob != 1 else inf
ProbToBayesFactor(prob) ==
    IF prob.n # prob.d THEN Frac(prob.n, prob.d - prob.n) ELSE Inf

\* f"{x:,.2f}": the fraction in hundredths, halves to the even neighbour
Round2(q) ==
    LET m == q.n * 100
        lo == m \div q.d
        twice == 2 * (m % q.d)
    IN  IF twice < q.d THEN lo
        ELSE IF twice > q.d THEN lo + 1
        ELSE IF lo % 2 = 0 THEN lo ELSE lo + 1

(***************************************************************************)
(* The settings: comparisons and their levels, as the comparison and       *)
(* comparison level objects present them.                                  *)
(***************************************************************************)
Level(label, sql, m, u, tf) ==
    [label_for_charts |-> label, sql_condition |-> sql,
     bayes_factor |-> Frac(m.n * u.d, m.d * u.n),
     log2_bayes_factor |-> Fin(Log2Exact(m.n * u.d, m.d * u.n)),
     m_probability |-> m, u_probability |-> u,
     bayes_factor_description |-> [text |-> "level", factor |-> Round2(Frac(m.n * u.d, m.d * u.n))],
     has_tf_adjustments |-> tf, tf_adjustment_weight |-> "1.0"]

ComparisonKinds ==
    { [comparison_name |-> "first_name",
       levels |-> <<Level("All other comparisons", "ELSE", Frac(1, 8), Frac(1, 2), FALSE),
                    Level("Exact match", "first_name_l = first_name_r",
                          Frac(4, 5), Frac(1, 10), TRUE)>>],
      [comparison_name |-> "surname",
       levels |-> <<Level("All other comparisons", "ELSE", Frac(1, 4), Frac(1, 2), FALSE),
                    Level("Exact match", "surname_l = surname_r",
                          Frac(1, 2), Frac(1, 8), TRUE)>>],
      [comparison_name |-> "dob",
       levels |-> <<Level("All other comparisons", "ELSE", Frac(1, 4), Frac(1, 2), FALSE),
                    Level("Exact match", "dob_l = dob_r",
                          Frac(4, 5), Frac(1, 20), TRUE)>>] }

ComparisonNames == {cc.comparison_name : cc \in ComparisonKinds}

\* comparison.get_comparison_level_by_comparison_vector_value(cv_value)
GetComparisonLevel(cc, cv_value) == cc.levels[cv_value + 1]

\* the prior probabilities of the settings: 0, 1/3, 4/5 and 1
PriorChoices == {Frac(0, 1), Frac(1, 3), Frac(4, 5), Frac(1, 1)}

\* the term frequency adjustment the data gives a comparison whose
\* selected level has one
TfAdjOf(name) ==
    CASE name = "first_name" -> Frac(1, 4)
      [] name = "surname" -> Frac(2, 1)
      [] OTHER -> Frac(1, 1)

\* the adjustment of a comparison whose selected level has none
NoTfAdj == Frac(1, 1)

(***************************************************************************)
(* A scored record: gamma and bf_tf_adj per comparison, the input values,  *)
(* and the match weight the prediction query computed, the base 2          *)
(* logarithm of prior * product of the Bayes factors and adjustments.      *)
(***************************************************************************)
RECURSIVE LevelWeights(_, _, _)
LevelWeights(comparisons, gamma, bf_tf_adj) ==
    IF comparisons = <<>> THEN <<>>
    ELSE LET cc == Head(comparisons)
             cl == GetComparisonLevel(cc, gamma[cc.comparison_name])
         IN  <<cl.log2_bayes_factor, MathLog2(bf_tf_adj[cc.comparison_name]).val>>
                \o LevelWeights(Tail(comparisons), gamma, bf_tf_adj)

MatchWeight(settings_obj, gamma, bf_tf_adj) ==
    AddW(MathLog2(ProbToBayesFactor(settings_obj.proportion_of_matches)).val,
         SumW(LevelWeights(settings_obj.comparisons, gamma, bf_tf_adj)))

SelectedLevel(settings_obj, name, g) ==
    LET i == CHOOSE j \in DOMAIN settings_obj.comparisons :
                 settings_obj.comparisons[j].comparison_name = name
    IN  GetComparisonLevel(settings_obj.comparisons[i], g[name])

InSettings(settings_obj, name) ==
    \E i \in DOMAIN settings_obj.comparisons :
        settings_obj.comparisons[i].comparison_name = name

HasTf(settings_obj, name, g) ==
    InSettings(settings_obj, name) /\ SelectedLevel(settings_obj, name, g).has_tf_adjustments

\* the records the prediction query can produce under the settings: a
\* comparison whose selected level has no term frequency adjustment carries
\* the adjustment 1
ScoredRecord(settings_obj, g) ==
    LET t == [n \in ComparisonNames |->
                 IF HasTf(settings_obj, n, g) THEN TfAdjOf(n) ELSE NoTfAdj]
    IN  [gamma |-> g, bf_tf_adj |-> t,
         value_l |-> [n \in ComparisonNames |-> "l"],
         value_r |-> [n \in ComparisonNames |-> "r"],
         match_weight |-> MatchWeight(settings_obj, g, t)]

ScoredRecords(settings_obj) ==
    {ScoredRecord(settings_obj, g) :
        g \in {x \in [ComparisonNames -> {0, 1}] :
                  \A n \in ComparisonNames : ~InSettings(settings_obj, n) => x[n] = 0}}

(***************************************************************************)
(* The waterfall records.  A text made of parts is the sequence of its     *)
(* parts.                                                                  *)
(***************************************************************************)
WfOk(v) == [err |-> "none", val |-> v]

WfRaise(e) == [err |-> e, val |-> <<>>]

\* _prior_record(settings_obj)
PriorRecord(settings_obj) ==
    LET bf == ProbToBayesFactor(settings_obj.proportion_of_matches)
        lg == MathLog2(bf)
    IN  IF lg.err # "none" THEN WfRaise(lg.err)
        ELSE WfOk([column_name |-> <<"Prior">>,
                   label_for_charts |-> <<"Starting match weight (prior)">>,
                   sql_condition |-> None,
                   log2_bayes_factor |-> lg.val,
                   bayes_factor |-> bf,
                   comparison_vector_value |-> None,
                   m_probability |-> None,
                   u_probability |-> None,
                   bayes_factor_description |-> None,
                   value_l |-> <<>>,
                   value_r |-> <<>>,
                   term_frequency_adjustment |-> None])

\* rec["log2_bayes_factor"] = record_as_dict["match_weight"]
FinalScoreWeight(record_as_dict) == record_as_dict.match_weight

\* _final_score_record(record_as_dict)
FinalScoreRecord(record_as_dict) ==
    [column_name |-> <<"Final score">>,
     label_for_charts |-> <<"Final score">>,
     sql_condition |-> None,
     log2_bayes_factor |-> FinalScoreWeight(record_as_dict),
     bayes_factor |-> Pow2(record_as_dict.match_weight),
     comparison_vector_value |-> None,
     m_probability |-> None,
     u_probability |-> None,
     bayes_factor_description |-> None,
     value_l |-> <<>>,
     value_r |-> <<>>,
     term_frequency_adjustment |-> None]

\* a slip in the comparison: a factor of exactly 1 is reported as less likely
TfDescriptionStrict(name, bf) ==
    IF bf.n > bf.d
    THEN [text |-> "times more likely to be a match", factor |-> Round2(bf)]
    ELSE [text |-> "times less likely to be a match", factor |-> Round2(Frac(bf.d, bf.n))]

\* the explanatory text of a term frequency adjustment
TfDescription(name, bf) ==
    IF bf.n >= bf.d
    THEN [text |-> "times more likely to be a match", factor |-> Round2(bf)]
    ELSE [text |-> "times less likely to be a match", factor |-> Round2(Frac(bf.d, bf.n))]

\* a slip: the copied record keeps the level's log2_bayes_factor
TfLog2Copied(cl, lg) == cl.log2_bayes_factor

\* waterfall_record_2["log2_bayes_factor"] = math.log2(bf)
TfLog2(cl, lg) == lg

\* a slip: the adjustment record is emitted for every comparison
NeedsTfRecordAlways(cl) == TRUE

\* if cl.has_tf_adjustments
NeedsTfRecord(cl) == cl.has_tf_adjustments

\* _comparison_records(record_as_dict, comparison)
ComparisonRecords(record_as_dict, cc) ==
    LET cv_value == record_as_dict.gamma[cc.comparison_name]
        cl == GetComparisonLevel(cc, cv_value)
        waterfall_record ==
            [column_name |-> <<cc.comparison_name>>,
             label_for_charts |-> <<cl.label_for_charts>>,
             sql_condition |-> Some(cl.sql_condition),
             log2_bayes_factor |-> cl.log2_bayes_factor,
             bayes_factor |-> cl.bayes_factor,
             comparison_vector_value |-> Some(cv_value),
             m_probability |-> Some(cl.m_probability),
             u_probability |-> Some(cl.u_probability),
             bayes_factor_description |-> Some(cl.bayes_factor_description),
             value_l |-> <<record_as_dict.value_l[cc.comparison_name]>>,
             value_r |-> <<record_as_dict.value_r[cc.comparison_name]>>,
             term_frequency_adjustment |-> Some(FALSE)]
        bf == record_as_dict.bf_tf_adj[cc.comparison_name]
        lg == MathLog2(bf)
        waterfall_record_2 ==
            [waterfall_record EXCEPT
                !.column_name = <<"tf_", cc.comparison_name>>,
                !.term_frequency_adjustment = Some(TRUE),
                !.label_for_charts = <<"Term freq adjustment on", cc.comparison_name,
                                       "with weight", cl.tf_adjustment_weight>>,
                !.bayes_factor = bf,
                !.log2_bayes_factor = TfLog2(cl, lg.val),
                !.m_probability = None,
                !.u_probability = None,
                !.bayes_factor_description = Some(TfDescription(cc.comparison_name, bf))]
    IN  IF ~NeedsTfRecord(cl) THEN WfOk(<<waterfall_record>>)
        ELSE IF lg.err # "none" THEN WfRaise(lg.err)
        ELSE WfOk(<<[waterfall_record EXCEPT !.bayes_factor_description = None],
                    waterfall_record_2>>)

\* for cc in comparisons: waterfall_records.extend(_comparison_records(...))
RECURSIVE ExtendComparisons(_, _, _)
ExtendComparisons(waterfall_records, record_as_dict, comparisons) ==
    IF comparisons = <<>> THEN WfOk(waterfall_records)
    ELSE LET records == ComparisonRecords(record_as_dict, Head(comparisons))
         IN  IF records.err # "none" THEN records
             ELSE ExtendComparisons(waterfall_records \o records.val, record_as_dict,
                                    Tail(comparisons))

\* rec[field] = value on a dict that may lack the field
SetField(rec, field, value) ==
    [f \in DOMAIN rec \cup {field} |-> IF f = field THEN value ELSE rec[f]]

\* a slip in the numbering: enumerate(waterfall_records, 1)
SortOrderFromOne(i) == i

\* the index enumerate() gives position i of a list
SortOrder(i) == i - 1

\* record_to_waterfall_data(record_as_dict, settings_obj)
RecordToWaterfallData(record_as_dict, settings_obj) ==
    LET prior == PriorRecord(settings_obj)
        withComparisons ==
            ExtendComparisons(<<prior.val>>, record_as_dict, settings_obj.comparisons)
        waterfall_records == Append(withComparisons.val, FinalScoreRecord(record_as_dict))
    IN  IF prior.err # "none" THEN WfRaise(prior.err)
        ELSE IF withComparisons.err # "none" THEN WfRaise(withComparisons.err)
        ELSE WfOk([i \in DOMAIN waterfall_records |->
                      SetField(waterfall_records[i], "bar_sort_order", SortOrder(i))])

\* records_to_waterfall_data(records, settings_obj), from record i on
RECURSIVE RecordsToWaterfallData(_, _, _, _)
RecordsToWaterfallData(records, settings_obj, i, waterfall_data) ==
    IF i > Len(records) THEN WfOk(waterfall_data)
    ELSE LET new_data == RecordToWaterfallData(records[i], settings_obj)
         IN  IF new_data.err # "none" THEN WfRaise(new_data.err)
             ELSE RecordsToWaterfallData(
                      records, settings_obj, i + 1,
                      waterfall_data \o
                          [j \in DOMAIN new_data.val |->
                              SetField(new_data.val[j], "record_number", SortOrder(i))])

(***************************************************************************)
(* The waterfall functions applied to inputs drawn from bounded sets.      *)
(***************************************************************************)
Injective(seq) == \A i, j \in DOMAIN seq : seq[i] = seq[j] => i = j

SettingsChoices ==
    {[proportion_of_matches |-> p, comparisons |-> cs] :
        p \in PriorChoices,
        cs \in {c \in SeqsUpTo(ComparisonKinds, MaxComparisons) : Injective(c)}}

WaterfallInputs ==
    UNION {{[phase |-> "input", settings_obj |-> st, records |-> rs] :
                rs \in SeqsUpTo(ScoredRecords(st), MaxRecords)} :
           st \in SettingsChoices}

InitWaterfall ==
    /\ IdleDb
    /\ blk = Idle
    /\ wf \in WaterfallInputs
    /\ tpl = Idle

\* record_to_waterfall_data on the first scored record
RecordToWaterfallDataCall ==
    /\ wf.phase = "input"
    /\ wf.records # <<>>
    /\ LET r == RecordToWaterfallData(wf.records[1], wf.settings_obj)
       IN  wf' = [phase |-> "record", settings_obj |-> wf.settings_obj,
                  records |-> <<wf.records[1]>>, err |-> r.err, out |-> r.val]
    /\ UNCHANGED <<dbVars, blk, tpl>>

\* records_to_waterfall_data on all the scored records
RecordsToWaterfallDataCall ==
    /\ wf.phase = "input"
    /\ LET r == RecordsToWaterfallData(wf.records, wf.settings_obj, 1, <<>>)
       IN  wf' = [phase |-> "records", settings_obj |-> wf.settings_obj,
                  records |-> wf.records, err |-> r.err, out |-> r.val]
    /\ UNCHANGED <<dbVars, blk, tpl>>

NextWaterfall ==
    \/ RecordToWaterfallDataCall
    \/ RecordsToWaterfallDataCall

SpecWaterfall == InitWaterfall /\ [][NextWaterfall]_vars

(***************************************************************************)
(* The linker that cumulative_comparisons_generated_by_blocking_rules is   *)
(* given.  Objects live in a heap, a function from object names to         *)
(* records; a linker refers to its settings object by name, so that two    *)
(* linkers can share one settings object or each have their own.           *)
(***************************************************************************)

\* the caller's linker and its settings object
CallerHeap(retain_matching, retain_intermediate) ==
    ("linker" :> [settings_obj |-> "settings", analyse_blocking_mode |-> FALSE])
    @@ ("settings" :>
            [blocking_rules_to_generate_predictions |-> SettingsRules,
             retain_matching_columns |-> retain_matching,
             retain_intermediate_calculation_columns |-> retain_intermediate,
             tf_adjustment_column |-> <<Some("first_name"), None>>])

\* a slip in the copy: copy.copy(linker), a new linker that shares the
\* settings object of the original
DeepcopyShallow(heap, ref) ==
    [ref |-> "linker_copy", heap |-> ("linker_copy" :> heap[ref]) @@ heap]

\* deepcopy(linker): a new linker with a new settings object
Deepcopy(heap, ref) ==
    [ref |-> "linker_copy",
     heap |-> ("linker_copy" :> [heap[ref] EXCEPT !.settings_obj = "settings_copy"])
              @@ ("settings_copy" :> heap[heap[ref].settings_obj])
              @@ heap]

\* linker._analyse_blocking_mode = b
SetAnalyseBlockingMode(heap, linker, b) ==
    [heap EXCEPT ![linker].analyse_blocking_mode = b]

\* the settings of the linker adjusted for the analysis: the blocking rules
\* given, no retained columns, no term frequency adjustment
AdjustSettings(heap, settings_obj, blocking_rules) ==
    [heap EXCEPT ![settings_obj] =
        [@ EXCEPT !.blocking_rules_to_generate_predictions =
                      IF blocking_rules # <<>> THEN blocking_rules ELSE @,
                  !.retain_matching_columns = FALSE,
                  !.retain_intermediate_calculation_columns = FALSE,
                  !.tf_adjustment_column = [i \in DOMAIN @ |-> None]]]

\* linker = deepcopy(linker) ... up to the queries: the heap and the linker
\* the function works on
PrepareLinker(c, blocking_rules) ==
    [ref |-> c.ref,
     heap |-> AdjustSettings(SetAnalyseBlockingMode(c.heap, c.ref, TRUE),
                             c.heap[c.ref].settings_obj, blocking_rules)]

\* linker._analyse_blocking_mode = False, reached when nothing was raised
FinishLinker(c, r) ==
    SetField(r, "heap", IF r.err = "none" THEN SetAnalyseBlockingMode(c.heap, c.ref, FALSE)
                        ELSE c.heap)

\* cumulative_comparisons_generated_by_blocking_rules on the linker of the
\* heap: what the call computed, and the heap it leaves
CumulativeComparisonsOnLinker(in) ==
    FinishLinker(PrepareLinker(Deepcopy(in.heap, "linker"), in.blocking_rules),
                 CumulativeComparisons(in))

LinkerInputs ==
    {[phase |-> "input", link_type |-> lt, sizes |-> sz, blocking_rules |-> br,
      output_chart |-> oc, heap |-> CallerHeap(rm, ri)] :
        lt \in LinkTypes,
        sz \in SeqsUpTo(0..MaxRows, MaxDatasets),
        br \in {<<>>, <<"1=1">>, <<"l.b = r.b", "1=1">>},
        oc \in BOOLEAN, rm \in BOOLEAN, ri \in BOOLEAN}

InitLinker ==
    /\ IdleDb
    /\ wf = Idle
    /\ blk \in LinkerInputs
    /\ tpl = Idle

CumulativeComparisonsOnLinkerCall ==
    /\ blk.phase = "input"
    /\ ValidLinker(blk)
    /\ blk' = CumulativeComparisonsOnLinker(blk)
    /\ UNCHANGED <<dbVars, wf, tpl>>

NextLinker == CumulativeComparisonsOnLinkerCall

SpecLinker == InitLinker /\ [][NextLinker]_vars

(***************************************************************************)
(* The pre-filter estimate of the comparisons a blocking rule generates    *)
(* (analyse_blocking.py).  A table is a sequence of rows, a row a record   *)
(* of optional values (None is SQL's NULL).  A statement is a record       *)
(* [op, ..., output_table_name]; the statements are run in order, each one *)
(* reading the tables made before it.                                      *)
(***************************************************************************)
MaxTableRows == 2       \* rows of one input table of the estimate

RowKinds ==
    << [postcode |-> Some("AB1"), surname |-> Some("S1")],
       [postcode |-> Some("AB1"), surname |-> Some("S2")],
       [postcode |-> Some("CD2"), surname |-> Some("S1")],
       [postcode |-> Some("CD2"), surname |-> Some("S2")],
       [postcode |-> None, surname |-> Some("S1")],
       [postcode |-> None, surname |-> Some("S2")] >>

\* the tables of at most n rows, one for each multiset of rows
TablesUpTo(n) ==
    {[i \in DOMAIN ix |-> RowKinds[ix[i]]] :
        ix \in {s \in SeqsUpTo(DOMAIN RowKinds, n) :
                    \A i, j \in DOMAIN s : i < j => s[i] <= s[j]}}

\* blocking_rule._equi_join_conditions: pairs (l_key, r_key)
JoinConditionChoices ==
    { <<>>,
      <<[l_key |-> "postcode", r_key |-> "postcode"]>>,
      <<[l_key |-> "surname", r_key |-> "surname"]>>,
      <<[l_key |-> "postcode", r_key |-> "postcode"],
        [l_key |-> "surname", r_key |-> "surname"]>> }

\* a slip in the fallback: the concatenated table is counted on both sides
\* whatever the link type
PreFilterSqlsConcatOnly(two_dataset_link_only, join_conditions) ==
    << [op |-> "count * count", l |-> "__splink__df_concat", r |-> "__splink__df_concat",
        output_table_name |-> "__splink__total_of_block_counts"] >>

\* count_comparisons_from_blocking_rule_pre_filter_conditions_sqls: the
\* statements, with the names of their output tables
PreFilterSqls(two_dataset_link_only, join_conditions) ==
    LET input_tablename_l == IF two_dataset_link_only THEN "input_l"
                             ELSE "__splink__df_concat"
        input_tablename_r == IF two_dataset_link_only THEN "input_r"
                             ELSE "__splink__df_concat"
        l_cols_gb == [i \in DOMAIN join_conditions |-> join_conditions[i].l_key]
        r_cols_gb == [i \in DOMAIN join_conditions |-> join_conditions[i].r_key]
    IN  IF join_conditions = <<>>
        THEN << [op |-> "count * count", l |-> input_tablename_l, r |-> input_tablename_r,
                 output_table_name |-> "__splink__total_of_block_counts"] >>
        ELSE << [op |-> "group by", l |-> input_tablename_l, r |-> "", cols |-> l_cols_gb,
                 output_table_name |-> "__splink__count_comparisons_from_blocking_l"],
                [op |-> "group by", l |-> input_tablename_r, r |-> "", cols |-> r_cols_gb,
                 output_table_name |-> "__splink__count_comparisons_from_blocking_r"],
                [op |-> "inner join using", l |-> "__splink__count_comparisons_from_blocking_l",
                 r |-> "__splink__count_comparisons_from_blocking_r",
                 output_table_name |-> "__splink__block_counts"],
                [op |-> "sum", l |-> "__splink__block_counts", r |-> "",
                 output_table_name |-> "__splink__total_of_block_counts"] >>

\* the key a row is grouped under: its values in the grouping columns
KeyOf(row, cols) == [j \in DOMAIN cols |-> row[cols[j]]]

\* select <cols> as key_i, count(*) as count from <table> group by <cols>:
\* one row per distinct key; rows with NULL in a key form a group of their own
GroupBy(table, cols) ==
    {[key |-> k, count |-> Cardinality({i \in DOMAIN table : KeyOf(table[i], cols) = k})] :
        k \in {KeyOf(table[i], cols) : i \in DOMAIN table}}

\* the comparison USING makes of two keys: NULL equals nothing
UsingEq(a, b) == \A j \in DOMAIN a : a[j] # None /\ a[j] = b[j]

\* select *, count_l * count_r as block_count from l inner join r using (keys)
InnerJoinUsing(l, r) ==
    {[key |-> p[1].key, count_l |-> p[1].count, count_r |-> p[2].count,
      block_count |-> p[1].count * p[2].count] :
        p \in {q \in l \X r : UsingEq(q[1].key, q[2].key)}}

RECURSIVE SumBlockCount(_)
SumBlockCount(rel) ==
    IF rel = {} THEN 0
    ELSE LET x == CHOOSE y \in rel : TRUE
         IN  x.block_count + SumBlockCount(rel \ {x})

\* select sum(block_count): NULL over no rows
SqlSum(rel) == IF rel = {} THEN None ELSE Some(SumBlockCount(rel))

\* the table a statement makes from the tables of env
RunStatement(stmt, env) ==
    CASE stmt.op = "count * count" -> Some(Len(env[stmt.l]) * Len(env[stmt.r]))
      [] stmt.op = "group by" -> GroupBy(env[stmt.l], stmt.cols)
      [] stmt.op = "inner join using" -> InnerJoinUsing(env[stmt.l], env[stmt.r])
      [] stmt.op = "sum" -> SqlSum(env[stmt.l])

\* the statements run in order; the value of the last one
RECURSIVE RunSqls(_, _)
RunSqls(sqls, env) ==
    LET made == RunStatement(Head(sqls), env)
    IN  IF Len(sqls) = 1 THEN made
        ELSE RunSqls(Tail(sqls), (Head(sqls).output_table_name :> made) @@ env)

\* the input tables of the linker and their vertical concatenation
LinkerTables(t1, t2) ==
    ("input_l" :> t1) @@ ("input_r" :> t2) @@ ("__splink__df_concat" :> t1 \o t2)

\* left grouped counts {AB1: 2, CD2: 3}, right grouped counts {AB1: 4, CD2: 1}
ScenarioC ==
    [phase |-> "prefilter input", two_dataset_link_only |-> TRUE,
     t1 |-> [i \in 1..5 |-> IF i <= 2 THEN RowKinds[1] ELSE RowKinds[3]],
     t2 |-> [i \in 1..5 |-> IF i <= 4 THEN RowKinds[1] ELSE RowKinds[3]],
     join_conditions |-> <<[l_key |-> "postcode", r_key |-> "postcode"]>>]

PreFilterInputs ==
    {[phase |-> "prefilter input", two_dataset_link_only |-> two, t1 |-> t1, t2 |-> t2,
      join_conditions |-> jc] :
        two \in BOOLEAN, t1 \in TablesUpTo(MaxTableRows), t2 \in TablesUpTo(MaxTableRows),
        jc \in JoinConditionChoices}
    \cup {ScenarioC}

InitPreFilter ==
    /\ IdleDb
    /\ wf = Idle
    /\ blk \in PreFilterInputs
    /\ tpl = Idle

\* the statements of the estimate, enqueued and run on the linker's tables
CountComparisonsPreFilterCall ==
    /\ blk.phase = "prefilter input"
    /\ LET sqls == PreFilterSqls(blk.two_dataset_link_only, blk.join_conditions)
       IN  blk' = [phase |-> "prefilter", in |-> blk, sqls |-> sqls,
                   out |-> RunSqls(sqls, LinkerTables(blk.t1, blk.t2))]
    /\ UNCHANGED <<dbVars, wf, tpl>>

NextPreFilter == CountComparisonsPreFilterCall

SpecPreFilter == InitPreFilter /\ [][NextPreFilter]_vars

(***************************************************************************)
(* The comparison templates (comparison_template_library.py).  A level is  *)
(* [kind, col, threshold, m_probability]; probabilities are in hundredths. *)
(***************************************************************************)
MaxThresholds == 2      \* thresholds given for one distance function

\* a list of k thresholds, or of k m probabilities, counted up from base
ListFrom(base, k) == [i \in 1..k |-> base + i]

ThresholdChoices(base) == {ListFrom(base, k) : k \in 0..MaxThresholds}

\* None, one probability for the one threshold, or a list of probabilities
MProbabilityChoices(base) ==
    {None, Some([is_list |-> FALSE, items |-> ListFrom(base, 1)]),
     Some([is_list |-> TRUE, items |-> ListFrom(base, MaxThresholds)])}

\* ensure_is_iterable(a): a itself, or [a] when a is a single value
EnsureIsIterable(a) == a.items

\* zip(xs, ys)
Zip(xs, ys) == [i \in 1..Min(Len(xs), Len(ys)) |-> <<xs[i], ys[i]>>]

\* distance_threshold_comparison_levels: one level per threshold, each with
\* its m probability (None when none is given)
DistanceThresholdComparisonLevels(col_name, distance_function_name, thresholds, m_or_ms) ==
    LET m_probabilities ==
            IF m_or_ms = None
            THEN [i \in DOMAIN thresholds |-> None]
            ELSE LET given == EnsureIsIterable(m_or_ms[1])
                 IN  [i \in DOMAIN given |-> Some(given[i])]
        pairs == Zip(thresholds, m_probabilities)
    IN  [i \in DOMAIN pairs |->
            [kind |-> distance_function_name, col |-> col_name,
             threshold |-> Some(pairs[i][1]), m_probability |-> pairs[i][2]]]

SimpleLevel(kind, col, m_probability) ==
    [kind |-> kind, col |-> col, threshold |-> None, m_probability |-> m_probability]

\* NameComparisonBase.__init__: the comparison levels it builds
NameComparisonLevels(a) ==
    LET exact ==
            IF a.include_exact_match_level
            THEN <<SimpleLevel("exact", a.col_name, a.m_probability_exact_match_name)>>
                    \o (IF a.phonetic_col_name # None
                        THEN <<SimpleLevel("exact", a.phonetic_col_name[1],
                                           a.m_probability_exact_match_phonetic_name)>>
                        ELSE <<>>)
            ELSE <<>>
        lev == DistanceThresholdComparisonLevels(
                   a.col_name, "levenshtein", a.levenshtein_thresholds,
                   a.m_probability_or_probabilities_lev)
        jar == DistanceThresholdComparisonLevels(
                   a.col_name, "jaro", a.jaro_thresholds,
                   a.m_probability_or_probabilities_jar)
        jw == DistanceThresholdComparisonLevels(
                   a.col_name, "jaro-winkler", a.jaro_winkler_thresholds,
                   a.m_probability_or_probabilities_jw)
        jac == DistanceThresholdComparisonLevels(
                   a.col_name, "jaccard", a.jaccard_thresholds,
                   a.m_probability_or_probabilities_jar)
    IN  <<SimpleLevel("null", a.col_name, None)>> \o exact \o lev \o jar \o jw \o jac
            \o <<SimpleLevel("else", "", a.m_probability_else)>>

NameComparisonArguments ==
    [phase : {"name arguments"},
     col_name : {"name"},
     include_exact_match_level : BOOLEAN,
     phonetic_col_name : {None, Some("name_dm")},
     levenshtein_thresholds : ThresholdChoices(0),
     jaro_thresholds : ThresholdChoices(80),
     jaro_winkler_thresholds : {<<>>, <<95, 88>>},
     jaccard_thresholds : ThresholdChoices(70),
     m_probability_exact_match_name : {None},
     m_probability_exact_match_phonetic_name : {None},
     m_probability_or_probabilities_lev : {None},
     m_probability_or_probabilities_jar : MProbabilityChoices(20),
     m_probability_or_probabilities_jw : {None},
     m_probability_or_probabilities_jac : MProbabilityChoices(40),
     m_probability_else : {None, Some(5)}]

\* datediff_error_logger(thresholds, metrics): the thresholds and the metrics
\* must pair up
DatediffErrorLogger(thresholds, metrics) ==
    IF Len(thresholds) # Len(metrics) THEN "ValueError" ELSE "none"

\* distance_threshold_comparison_levels, called when thresholds are given
ThresholdLevelsIfAny(col_name, distance_function_name, thresholds, m_or_ms) ==
    IF Len(thresholds) > 0
    THEN DistanceThresholdComparisonLevels(col_name, distance_function_name,
                                           thresholds, m_or_ms)
    ELSE <<>>

\* the levels self._datediff_level builds over
\* zip(datediff_thresholds, datediff_metrics, m_probabilities)
DatediffLevels(col_name, thresholds, metrics, m_probabilities) ==
    [i \in 1..Min(Len(thresholds), Min(Len(metrics), Len(m_probabilities))) |->
        [kind |-> "datediff", col |-> col_name,
         threshold |-> Some(<<thresholds[i], metrics[i]>>),
         m_probability |-> m_probabilities[i]]]

\* the datediff branch of DateComparisonBase.__init__: the datediff levels
\* and, after them, the 'anything else' level
DatediffBranch(a) ==
    IF Len(a.datediff_thresholds) > 0
    THEN DatediffLevels(
             a.col_name, a.datediff_thresholds, a.datediff_metrics,
             IF a.m_probability_or_probabilities_datediff = None
             THEN [i \in DOMAIN a.datediff_thresholds |-> None]
             ELSE [i \in DOMAIN EnsureIsIterable(a.m_probability_or_probabilities_datediff[1]) |->
                      Some(EnsureIsIterable(a.m_probability_or_probabilities_datediff[1])[i])])
         \o <<SimpleLevel("else", "", a.m_probability_else)>>
    ELSE <<>>

\* DateComparisonBase.__init__: the comparison levels it builds
DateComparisonLevels(a) ==
    <<SimpleLevel("null", a.col_name, None)>>
    \o (IF a.separate_1st_january
        THEN <<SimpleLevel("exact 1st january", a.col_name, a.m_probability_1st_january)>>
        ELSE <<>>)
    \o (IF a.include_exact_match_level
        THEN <<SimpleLevel("exact", a.col_name, a.m_probability_exact_match)>>
        ELSE <<>>)
    \o ThresholdLevelsIfAny(a.col_name, "levenshtein", a.levenshtein_thresholds,
                            a.m_probability_or_probabilities_lev)
    \o ThresholdLevelsIfAny(a.col_name, "jaro", a.jaro_thresholds,
                            a.m_probability_or_probabilities_jar)
    \o ThresholdLevelsIfAny(a.col_name, "jaro-winkler", a.jaro_winkler_thresholds,
                            a.m_probability_or_probabilities_jw)
    \o DatediffBranch(a)

\* the description DateComparisonBase.__init__ builds, part by part
DateComparisonDescription(a) ==
    (IF a.include_exact_match_level THEN <<"Exact match vs. ">> ELSE <<>>)
    \o (IF Len(a.levenshtein_thresholds) > 0 THEN <<"levenshtein">> ELSE <<>>)
    \o (IF Len(a.jaro_thresholds) > 0 THEN <<"jaro">> ELSE <<>>)
    \o (IF Len(a.jaro_winkler_thresholds) > 0 THEN <<"jaro_winkler">> ELSE <<>>)
    \o (IF Len(a.datediff_thresholds) > 0
        THEN <<IF Len(a.datediff_thresholds) = 1
               THEN "Dates within the following threshold"
               ELSE "Dates within the following thresholds">>
        ELSE <<>>)
    \o <<"anything else">>

\* the metrics given with k datediff thresholds
MetricChoices(k) == [1..k -> {"month", "year"}]

DateComparisonArguments ==
    UNION {
        [phase : {"date arguments"},
         col_name : {"dob"},
         include_exact_match_level : BOOLEAN,
         separate_1st_january : BOOLEAN,
         levenshtein_thresholds : ThresholdChoices(0),
         jaro_thresholds : {<<>>, <<90>>},
         jaro_winkler_thresholds : {<<>>, <<95, 88>>},
         datediff_thresholds : {dd},
         datediff_metrics : MetricChoices(Len(dd)),
         m_probability_exact_match : {None},
         m_probability_1st_january : {None},
         m_probability_or_probabilities_lev : {None},
         m_probability_or_probabilities_jar : {None},
         m_probability_or_probabilities_jw : {None},
         m_probability_or_probabilities_datediff : MProbabilityChoices(30),
         m_probability_else : {None, Some(5)}] : dd \in ThresholdChoices(0) }

InitTemplates ==
    /\ IdleDb
    /\ blk = Idle
    /\ wf = Idle
    /\ tpl \in NameComparisonArguments \cup DateComparisonArguments

\* name_comparison(col_name, ...)
NameComparisonCall ==
    /\ tpl.phase = "name arguments"
    /\ tpl' = [phase |-> "name", in |-> tpl, comparison_levels |-> NameComparisonLevels(tpl)]
    /\ UNCHANGED <<dbVars, blk, wf>>

\* date_comparison(col_name, ...)
DateComparisonCall ==
    /\ tpl.phase = "date arguments"
    /\ tpl' = [phase |-> "date", in |-> tpl,
               err |-> DatediffErrorLogger(tpl.datediff_thresholds, tpl.datediff_metrics),
               comparison_levels |-> DateComparisonLevels(tpl),
               comparison_description |-> DateComparisonDescription(tpl)]
    /\ UNCHANGED <<dbVars, blk, wf>>

NextTemplates ==
    \/ NameComparisonCall
    \/ DateComparisonCall

SpecTemplates == InitTemplates /\ [][NextTemplates]_vars

(***************************************************************************)
(* Claims about the DatabaseAPI state machine (Spec).                      *)
(***************************************************************************)

\* a call in composed mode with cache use enabled
ComposedCached(c) == ~c.debug /\ c.use_cache /\ c.sql # <<>>

\* C1: executing the same statement text twice within one session (composed
\* mode, cache use enabled) yields the same physical_name both times and the
\* backend executes the statement only once: the second request is a cache
\* hit and sends nothing to the backend.
C1_SecondExecutionIsCacheHit ==
    \A i, j \in DOMAIN calls :
        (/\ i < j
         /\ ComposedCached(calls[i]) /\ ComposedCached(calls[j])
         /\ calls[i].err = "none"
         /\ calls[i].sql = calls[j].sql)
        => /\ calls[j].err = "none"
           /\ calls[j].df.physical_name = calls[i].df.physical_name
           /\ calls[j].sent = <<>>

\* C13: any failure of the backend while a statement of the pipeline is
\* executed, the statements that set up the physical table included, reaches
\* the caller as one SplinkException that carries the failing statement and
\* the error of the backend as its cause; the error of the backend never
\* escapes as it is, and nothing is sent after the failure.
C13_BackendFailureIsWrapped ==
    \A i \in DOMAIN calls :
        LET c == calls[i]
        IN  /\ c.err # "BackendError"
            /\ c.failAt > 0 =>
                /\ c.err = "SplinkException"
                /\ c.exc.cause.type = "BackendError"
                /\ c.exc.final_sql \in {c.sent[c.failAt], Pretty(c.sent[c.failAt])}
                /\ Len(c.sent) = c.failAt

\* C14: a SplinkException always holds the message of the error of the
\* backend as it was and the text of the statement: pretty printed when the
\* reformatting succeeds, raw when the reformatting fails; a failure of the
\* reformatting never replaces the error of the backend.
C14_WrappedErrorKeepsMessage ==
    \A i \in DOMAIN calls :
        LET c == calls[i]
            stmt == c.sent[Len(c.sent)]
        IN  c.err = "SplinkException" =>
                /\ c.exc.error_was = c.exc.cause.message
                /\ c.exc.cause.type = "BackendError"
                /\ c.failAt = Len(c.sent) => c.exc.cause.message = "backend failure"
                /\ c.failAt = 0 =>
                     c.exc.cause.message \in {"table does not exist", "duplicate CTE name"}
                /\ c.exc.final_sql = IF c.parses THEN Pretty(stmt) ELSE stmt
                /\ c.exc.final_sql.name = c.exc.physical_name

\* the backend fails on a CREATE TABLE and the statement cannot be reformatted
C14_Witness ==
    \E i \in DOMAIN calls :
        /\ calls[i].err = "SplinkException"
        /\ ~calls[i].parses
        /\ calls[i].failAt = 2
        /\ calls[i].exc.final_sql # Pretty(calls[i].exc.final_sql)
        /\ calls[i].exc.error_was = "backend failure"

\* C15: when _execute_sql_pipeline returns, in either mode, the pipeline holds
\* no step and the reset comes after the last statement sent to the backend;
\* when it raises, the steps of the pipeline remain enqueued and a pipeline
\* that holds steps is not reset.
C15_ResetOnSuccessOnly ==
    [][calls' # calls =>
        LET c == calls'[Len(calls')]
        IN  /\ c.err = "none" =>
                /\ queue' = <<>>
                /\ c.events = Append(c.sent, ResetEvent)
            /\ c.err # "none" =>
                /\ queue' = queue
                /\ queue # <<>> => \A k \in DOMAIN c.events : c.events[k] # ResetEvent]_vars

\* a call in debug mode that ran two steps and returned: the pipeline is empty
C15_Witness ==
    \E i \in DOMAIN calls :
        /\ calls[i].err = "none"
        /\ calls[i].debug
        /\ Len(calls[i].sent) >= 4
        /\ Len(calls) = 1 /\ queue = <<>>

\* C16: for every sequence of steps and every set of seed handles, the
\* execution in composed mode and the execution in debug mode produce the
\* same final rows: when one of them returns a handle so does the other, and
\* the rows behind the two handles are the same.
C16_ModesProduceSameRows ==
    calls # <<>> =>
        /\ calls[1].err = "none" <=> calls[2].err = "none"
        /\ calls[1].rows = calls[2].rows

\* C18: within one session, after any sequence of executions in either mode,
\* no two handles returned by different executions have the same
\* physical_name, and the table behind a handle is still the one its
\* execution created: no later execution has dropped or replaced it.
C18_PhysicalNameUnique ==
    \A i, j \in DOMAIN calls :
        (i < j /\ calls[i].err = "none" /\ calls[j].err = "none") =>
            /\ calls[i].df.physical_name # calls[j].df.physical_name
            /\ Exists(tables, calls[i].df.physical_name)
            /\ Lookup(tables, calls[i].df.physical_name).serial = i

(***************************************************************************)
(* Claims about the blocking analysis (SpecBlocking).                      *)
(***************************************************************************)

Cumulative == blk.phase = "cumulative"

Returned == Cumulative /\ blk.err = "none"

\* the row count the grouped result reports for match key k, 0 when absent
ReportedCount(br_n, k) ==
    IF \E j \in DOMAIN br_n : br_n[j].match_key = k
    THEN br_n[CHOOSE j \in DOMAIN br_n : br_n[j].match_key = k].row_count
    ELSE 0

KeyAbsent(k) == \A j \in DOMAIN blk.br_n : blk.br_n[j].match_key # k

\* C5: the output has exactly one entry per configured rule, in rule order;
\* entry i carries rule i and the row count reported for match key i, or 0
\* when key i is absent from the grouped result.
C5_OneEntryPerRule ==
    Returned =>
        /\ Len(blk.out) = Len(blk.brs)
        /\ \A i \in DOMAIN blk.out :
            /\ blk.out[i].rule = blk.brs[i]
            /\ blk.out[i].row_count = ReportedCount(blk.br_n, i - 1)

\* three rules, the first and the last key absent, the middle one present
C5_Witness ==
    /\ Returned
    /\ Len(blk.brs) = 3
    /\ KeyAbsent(0) /\ ~KeyAbsent(1) /\ KeyAbsent(2)
    /\ blk.out[2].row_count > 0

\* C6: with chart output, cumulative_rows of rule i is the sum of row_count
\* over rules 0..i, so it never decreases, and start of rule i is
\* cumulative_rows of rule i-1 (0 for the first rule).
C6_CumulativeRows ==
    (Returned /\ blk.in.output_chart) =>
        \A i \in DOMAIN blk.out :
            /\ blk.out[i].cumulative_rows =
                   SumSeq([j \in 1..i |-> blk.out[j].row_count])
            /\ blk.out[i].start = IF i = 1 THEN 0 ELSE blk.out[i - 1].cumulative_rows
            /\ i > 1 => blk.out[i].cumulative_rows >= blk.out[i - 1].cumulative_rows

\* three rules that all contribute pairs
C6_Witness ==
    /\ Returned /\ blk.in.output_chart
    /\ Len(blk.out) = 3
    /\ \A i \in 1..3 : blk.out[i].row_count > 0
    /\ blk.out[3].cumulative_rows > blk.out[2].cumulative_rows

CartesianComputed == Cumulative /\ blk.in.output_chart /\ blk.cartesian.err = "none"

ExactRowCounts == [j \in DOMAIN blk.br_n |-> blk.br_n[j].row_count]

\* C7: the sum of the exact per-rule row counts (each pair counted under the
\* first rule that matches it) is at most the cartesian size of the same
\* inputs and link type.
C7_RowCountsWithinCartesian ==
    CartesianComputed =>
        SumSeq(ExactRowCounts) * blk.cartesian.val.d <= blk.cartesian.val.n

\* two datasets linked and deduplicated, two rules that both contribute
C7_Witness ==
    /\ CartesianComputed
    /\ blk.in.link_type = "link_and_dedupe"
    /\ Len(blk.in.sizes) = 2 /\ blk.in.sizes[1] > 0 /\ blk.in.sizes[2] > 1
    /\ Len(blk.br_n) >= 2
    /\ SumSeq(ExactRowCounts) * blk.cartesian.val.d = blk.cartesian.val.n

\* rr (in millionths) is 1 - cumulative_rows / cartesian rounded to 6 decimals
IsRoundedRatio(rr, cumulative_rows, cartesian) ==
    LET exact == 1000000 * (cartesian.n - cumulative_rows * cartesian.d)
        diff == rr * cartesian.n - exact
    IN  /\ cartesian.n > 0
        /\ 2 * diff <= cartesian.n
        /\ 2 * diff >= 0 - cartesian.n

\* C8: for every rule the reduction ratio reported is
\* 1 - cumulative_rows / cartesian rounded to 6 decimals, it never exceeds 1,
\* and it is defined for every input on which the cartesian size is computed;
\* one dataset of 10 rows with a single always-true rule gives cartesian 45,
\* row_count 45 and reduction ratio 0.0.
C8_ReductionRatioDefined ==
    CartesianComputed =>
        /\ blk.err = "none"
        /\ Len(blk.out) = Len(blk.brs)
        /\ \A i \in DOMAIN blk.out :
            /\ IsRoundedRatio(blk.out[i].reduction_ratio, blk.out[i].cumulative_rows,
                              blk.cartesian.val)
            /\ blk.out[i].reduction_ratio <= 1000000
        /\ blk.in = ScenarioA =>
            /\ blk.out[1].cartesian = 45
            /\ blk.out[1].row_count = 45
            /\ blk.out[1].reduction_ratio = 0

CartesianCalled == blk.phase = "cartesian"

\* the number of unordered pairs of distinct rows among n rows
UnorderedPairs(n) == Cardinality({p \in (1..n) \X (1..n) : p[1] < p[2]})

\* C9: for dedupe_only with exactly one input dataset of N rows
\* calculate_cartesian returns N*(N-1)/2, the number of unordered pairs of
\* distinct rows; with more than one input dataset count it fails with a
\* configuration error and returns no value.
C9_DedupeCartesian ==
    (CartesianCalled /\ blk.in.link_type = "dedupe_only") =>
        /\ Len(blk.in.sizes) = 1 =>
            /\ blk.out.err = "none"
            /\ blk.out.val.n = UnorderedPairs(blk.in.sizes[1]) * blk.out.val.d
        /\ Len(blk.in.sizes) > 1 => blk.out = Raise("ValueError")

\* one dataset of three rows: three pairs
C9_Witness ==
    /\ CartesianCalled /\ blk.in.link_type = "dedupe_only"
    /\ blk.in.sizes = <<3>>
    /\ blk.out = Ok(Frac(6, 2))

\* a single dataset of fewer than two rows under dedupe, or a single dataset
\* under link_only
TooFewToPair(in) ==
    /\ Len(in.sizes) = 1
    /\ \/ in.link_type = "dedupe_only" /\ in.sizes[1] < 2
       \/ in.link_type = "link_only"

\* C10: the cartesian-size estimator fails with a configuration error when
\* the input is a single dataset with N < 2 rows under dedupe, or a single
\* dataset under link_only; no cartesian value is returned and no reduction
\* ratio is computed from it.
C10_TooFewRowsIsConfigurationError ==
    /\ (CartesianCalled /\ TooFewToPair(blk.in)) => blk.out = Raise("ValueError")
    /\ (Cumulative /\ blk.in.output_chart /\ TooFewToPair(blk.in)) =>
            /\ blk.cartesian = Raise("ValueError")
            /\ blk.err = "ValueError"
            /\ blk.out = <<>>

(***************************************************************************)
(* Claims about the waterfall chart data (SpecWaterfall).                  *)
(***************************************************************************)

\* record_to_waterfall_data has returned wf.out for the record wf.records[1]
OneRecordDone == wf.phase = "record" /\ wf.err = "none"

AllRecordsDone == wf.phase = "records" /\ wf.err = "none"

Log2Fields(recs) == [i \in DOMAIN recs |-> recs[i].log2_bayes_factor]

\* C2: the log2_bayes_factor of the prior record plus that of every
\* comparison record and every term-frequency-adjustment record equals the
\* log2_bayes_factor of the final-score record, the record's match_weight.
C2_WeightsSumToFinalScore ==
    OneRecordDone =>
        LET n == Len(wf.out)
        IN  /\ wf.out[n].log2_bayes_factor = wf.records[1].match_weight
            /\ SumW(Log2Fields(SubSeq(wf.out, 1, n - 1))) = wf.out[n].log2_bayes_factor

\* a finite prior, two comparisons, a term frequency adjustment that is not 1
C2_Witness ==
    /\ OneRecordDone
    /\ Len(wf.settings_obj.comparisons) = 2
    /\ ~wf.out[1].log2_bayes_factor.inf /\ wf.out[1].log2_bayes_factor.k # 0
    /\ \E i \in DOMAIN wf.out :
        /\ wf.out[i].term_frequency_adjustment = Some(TRUE)
        /\ wf.out[i].log2_bayes_factor.k # 0
    /\ ~wf.out[Len(wf.out)].log2_bayes_factor.inf

\* the level the record selects in comparison i of the settings
LevelOf(i) ==
    GetComparisonLevel(wf.settings_obj.comparisons[i],
                       wf.records[1].gamma[wf.settings_obj.comparisons[i].comparison_name])

\* the comparisons before comparison i whose selected level has a tf adjustment
TfBefore(i) == Cardinality({j \in 1..(i - 1) : LevelOf(j).has_tf_adjustments})

\* C3: the records come in this order: the prior record, then for each
\* comparison in configured order one comparison record, immediately followed
\* by one term-frequency-adjustment record if and only if the selected level
\* has a tf adjustment, and last the final-score record; there are
\* 2 + (comparisons) + (comparisons whose selected level has a tf adjustment)
\* records.
C3_FixedOrder ==
    OneRecordDone =>
        LET comparisons == wf.settings_obj.comparisons
            n == Len(wf.out)
        IN  /\ n = 2 + Len(comparisons) + TfBefore(Len(comparisons) + 1)
            /\ wf.out[1].column_name = <<"Prior">>
            /\ wf.out[n].column_name = <<"Final score">>
            /\ \A i \in DOMAIN comparisons :
                LET pos == 1 + i + TfBefore(i)
                IN  /\ wf.out[pos].column_name = <<comparisons[i].comparison_name>>
                    /\ wf.out[pos].term_frequency_adjustment = Some(FALSE)
                    /\ LevelOf(i).has_tf_adjustments =>
                        /\ wf.out[pos + 1].column_name =
                               <<"tf_", comparisons[i].comparison_name>>
                        /\ wf.out[pos + 1].term_frequency_adjustment = Some(TRUE)
                    /\ ~LevelOf(i).has_tf_adjustments =>
                        wf.out[pos + 1].term_frequency_adjustment # Some(TRUE)

\* two comparisons, the first with a tf adjustment and the second without
C3_Witness ==
    /\ OneRecordDone
    /\ Len(wf.settings_obj.comparisons) = 2
    /\ LevelOf(1).has_tf_adjustments /\ ~LevelOf(2).has_tf_adjustments
    /\ Len(wf.out) = 5
    /\ wf.out[3].term_frequency_adjustment = Some(TRUE)

\* C4: the sort order of the record at position i (from 0) is i; in
\* records_to_waterfall_data the numbering restarts at 0 for each scored
\* record and record_number is that scored record's index in the input.
C4_SortOrderIsIndex ==
    /\ OneRecordDone => \A i \in DOMAIN wf.out : wf.out[i].bar_sort_order = i - 1
    /\ AllRecordsDone =>
        /\ (wf.records = <<>>) <=> (wf.out = <<>>)
        /\ wf.out # <<>> =>
            /\ wf.out[1].record_number = 0 /\ wf.out[1].bar_sort_order = 0
            /\ wf.out[Len(wf.out)].record_number = Len(wf.records) - 1
        /\ \A p \in DOMAIN wf.out :
            /\ wf.out[p].column_name = <<"Final score">> =>
                wf.out[p].log2_bayes_factor =
                    wf.records[wf.out[p].record_number + 1].match_weight
            /\ p > 1 =>
                IF wf.out[p - 1].column_name = <<"Final score">>
                THEN /\ wf.out[p].record_number = wf.out[p - 1].record_number + 1
                     /\ wf.out[p].bar_sort_order = 0
                ELSE /\ wf.out[p].record_number = wf.out[p - 1].record_number
                     /\ wf.out[p].bar_sort_order = wf.out[p - 1].bar_sort_order + 1

\* two scored records with different weights: the second block restarts at 0
C4_Witness ==
    /\ AllRecordsDone
    /\ Len(wf.records) = 2
    /\ wf.records[1].match_weight # wf.records[2].match_weight
    /\ \E p \in DOMAIN wf.out :
        /\ p > 3
        /\ wf.out[p].record_number = 1 /\ wf.out[p].bar_sort_order = 0
    /\ wf.out[Len(wf.out)].bar_sort_order >= 3

\* the number of pairs of rows taken from two distinct datasets
CrossDatasetPairs(sizes) ==
    Cardinality({p \in InputRows(sizes) \X InputRows(sizes) : p[1].ds < p[2].ds})

\* C11: for link_only with two or more datasets of sizes N_1..N_k
\* calculate_cartesian returns ((sum of N_i)^2 - sum of N_i^2) / 2, which is
\* the number of pairs of rows from distinct datasets and a whole number
\* (sizes 3 and 4 give 12); with fewer than two datasets it fails.
C11_LinkOnlyCartesian ==
    (CartesianCalled /\ blk.in.link_type = "link_only") =>
        /\ Len(blk.in.sizes) >= 2 =>
            /\ blk.out.err = "none"
            /\ blk.out.val.n =
                 SumSeq(blk.in.sizes) * SumSeq(blk.in.sizes)
                    - SumSeq([i \in DOMAIN blk.in.sizes |-> blk.in.sizes[i] * blk.in.sizes[i]])
            /\ blk.out.val.d = 2
            /\ blk.out.val.n = CrossDatasetPairs(blk.in.sizes) * blk.out.val.d
            /\ blk.out.val.n % blk.out.val.d = 0
            /\ blk.in.sizes = <<3, 4>> => IntOf(blk.out.val) = 12
        /\ Len(blk.in.sizes) < 2 => blk.out = Raise("ValueError")

\* two datasets of 3 and 4 rows: 12 pairs
C11_Witness ==
    /\ CartesianCalled /\ blk.in.link_type = "link_only"
    /\ blk.in.sizes = <<3, 4>>
    /\ blk.out = Ok(Frac(24, 2))

(***************************************************************************)
(* Claims about the pre-filter estimate (SpecPreFilter).                   *)
(***************************************************************************)

PreFilterDone == blk.phase = "prefilter"

\* the tables the statements read as left and right input
LeftTable(in) == IF in.two_dataset_link_only THEN in.t1 ELSE in.t1 \o in.t2

RightTable(in) == IF in.two_dataset_link_only THEN in.t2 ELSE in.t1 \o in.t2

\* the number of (left row, right row) pairs that satisfy every key equality
EqualKeyPairs(in) ==
    Cardinality({p \in (DOMAIN LeftTable(in)) \X (DOMAIN RightTable(in)) :
        \A j \in DOMAIN in.join_conditions :
            LET a == LeftTable(in)[p[1]][in.join_conditions[j].l_key]
                b == RightTable(in)[p[2]][in.join_conditions[j].r_key]
            IN  a # None /\ a = b})

\* C12: for a blocking rule that is a conjunction of equi-join key pairs the
\* estimate of the four statements (group left, group right, inner join on
\* the key tuple, sum of count_l * count_r) is the number of (left row,
\* right row) pairs with equal key tuples, for every pair of input tables;
\* key tuples found on one side only contribute 0; scenario C gives 11.
C12_PreFilterEstimateIsPairCount ==
    (PreFilterDone /\ blk.in.join_conditions # <<>>) =>
        /\ Len(blk.sqls) = 4
        /\ blk.out = Some(EqualKeyPairs(blk.in))
        /\ blk.in = ScenarioC => blk.out = Some(11)

(***************************************************************************)
(* Claims about the intermediate table cache (SpecCache).                  *)
(***************************************************************************)

\* the entries of cache whose handle has the physical name of df
EntriesOf(cache, df) == {e \in cache : e.df.physical_name = df.physical_name}

\* C17: _remove_splinkdataframe_from_cache removes every entry of the cache
\* whose handle has the physical_name of the given handle, under however
\* many keys, and leaves every other entry as it was; with a handle that is
\* not cached nothing changes, and removing twice equals removing once.
C17_InvalidateByPhysicalName ==
    /\ \A i \in DOMAIN calls :
        LET c == calls[i]
        IN  /\ EntriesOf(c.after, c.handle) = {}
            /\ c.after = c.before \ EntriesOf(c.before, c.handle)
            /\ EntriesOf(c.before, c.handle) = {} => c.after = c.before
            /\ (i > 1 /\ calls[i - 1].handle = c.handle) => c.after = calls[i - 1].after
    /\ calls # <<>> => intermediate_table_cache = calls[Len(calls)].after

\* a handle cached under two keys is removed from both, another entry stays,
\* and the handle is removed once more
C17_Witness ==
    /\ Len(calls) = 2
    /\ calls[1].handle = calls[2].handle
    /\ Cardinality(EntriesOf(calls[1].before, calls[1].handle)) = 2
    /\ Cardinality(calls[1].after) = 1
    /\ intermediate_table_cache = calls[1].after

(***************************************************************************)
(* Claims about requests in flight at the same time (SpecConcurrent).      *)
(***************************************************************************)

\* thread t has sent its statement to the backend
Executed(t) == threads[t].pc \in {"done", "raised"}

\* C19: of two requests with the same fingerprint (the same statement text
\* in the same session) that run at the same time, at most one executes the
\* statement against the backend, and the table a request has created is
\* never dropped or created again by the other.
C19_AtMostOneExecution ==
    \A s, t \in DOMAIN threads :
        (s # t /\ threads[s].sql = threads[t].sql) =>
            /\ ~(Executed(s) /\ Executed(t))
            /\ threads[s].pc = "done" =>
                /\ Exists(tables, ThreadPhysicalName(s))
                /\ Lookup(tables, ThreadPhysicalName(s)).serial = s

(***************************************************************************)
(* Claims about the comparison templates (SpecTemplates).                  *)
(***************************************************************************)

\* the levels of one distance function, in the order built
LevelsOfKind(levels, kind) ==
    LET RECURSIVE Pick(_)
        Pick(i) == IF i > Len(levels) THEN <<>>
                   ELSE (IF levels[i].kind = kind THEN <<levels[i]>> ELSE <<>>) \o Pick(i + 1)
    IN  Pick(1)

\* C20: in the name comparison, when m_probability_or_probabilities_jac is
\* given and there are jaccard thresholds, the jaccard levels get their m
\* probabilities from m_probability_or_probabilities_jac, whatever is passed
\* as m_probability_or_probabilities_jar.
C20_JaccardUsesJaccardProbabilities ==
    (/\ tpl.phase = "name"
     /\ tpl.in.m_probability_or_probabilities_jac # None
     /\ tpl.in.jaccard_thresholds # <<>>) =>
        LET jac == LevelsOfKind(tpl.comparison_levels, "jaccard")
            given == EnsureIsIterable(tpl.in.m_probability_or_probabilities_jac[1])
        IN  /\ jac # <<>>
            /\ \A i \in DOMAIN jac : jac[i].m_probability = Some(given[i])

(***************************************************************************)
(* Claims about one call of _execute_sql_pipeline (SpecCall), continued.   *)
(***************************************************************************)

\* the statements of a call that create a table
Creates(c) == {k \in DOMAIN c.sent : c.sent[k].op = "create"}

DropOf(part) == [op |-> "drop", name |-> W(part.output_table_name), sql |-> <<>>]

CreateOf(part) == [op |-> "create", name |-> W(part.output_table_name), sql |-> part.sql]

\* C22: in debug mode the steps of the pipeline are executed one at a time in
\* the order they were enqueued: the statements sent are those of step 1,
\* then those of step 2 and so on, a step's statements come only after the
\* previous step has made its table, every step is sent to the backend
\* whether or not a table for it exists already, and the handle returned is
\* that of the last step enqueued.
C22_DebugRunsStepsInOrder ==
    [][(calls' # calls /\ debug_mode /\ queue # <<>>) =>
        LET c == calls'[Len(calls')]
        IN  \E dfs \in SeedChoices :
              LET parts == GeneratePipelineParts(queue, dfs)
              IN  /\ Len(c.sent) <= 2 * Len(queue)
                  /\ \A k \in DOMAIN c.sent :
                         c.sent[k] = IF k % 2 = 1 THEN DropOf(parts[(k + 1) \div 2])
                                     ELSE CreateOf(parts[k \div 2])
                  /\ c.err = "none" =>
                         /\ Len(c.sent) = 2 * Len(queue)
                         /\ c.df.templated_name = queue[Len(queue)].output_table_name
                         /\ c.df.physical_name = W(queue[Len(queue)].output_table_name)
                         /\ c.df.sql_used_to_create = parts[Len(queue)].sql
                         /\ Exists(tables', c.df.physical_name)
                         /\ Lookup(tables', c.df.physical_name).sql = parts[Len(queue)].sql]_vars

\* a call in debug mode on a pipeline of three steps has returned the handle
\* of the third
C22_Witness ==
    /\ Len(calls) = 1
    /\ calls[1].debug
    /\ calls[1].err = "none"
    /\ Cardinality(Creates(calls[1])) = 3
    /\ calls[1].df.templated_name = "t2"

\* C28: in debug mode, when the backend fails on step k of a pipeline, no
\* statement is submitted after the failing one, the tables made for the
\* steps before k are still in the backend, no handle is returned and the
\* pipeline still holds all of its steps.
C28_DebugFailureKeepsEarlierSteps ==
    [][(/\ calls' # calls
        /\ debug_mode
        /\ calls'[Len(calls')].err # "none"
        /\ calls'[Len(calls')].sent # <<>>) =>
        LET c == calls'[Len(calls')]
            k == (Len(c.sent) + 1) \div 2
        IN  \E dfs \in SeedChoices :
              LET parts == GeneratePipelineParts(queue, dfs)
              IN  /\ c.failAt > 0 => Len(c.sent) = c.failAt
                  /\ Cardinality(Creates(c)) \in {k - 1, k}
                  /\ \A j \in 1..(k - 1) :
                         /\ Exists(tables', W(parts[j].output_table_name))
                         /\ Lookup(tables', W(parts[j].output_table_name)).sql = parts[j].sql
                  /\ c.df = NoDf
                  /\ queue' = queue]_vars

(***************************************************************************)
(* Claims about the pre-filter estimate (SpecPreFilter), continued.        *)
(***************************************************************************)

\* C23: for a blocking rule with no equi-join key pair the estimate is made
\* by one statement only, no grouping and no join, and it is the number of
\* rows of the left input times the number of rows of the right input: the
\* two input tables for a link of two datasets, the concatenated table of N
\* rows on both sides (N * N) otherwise; the value is never missing.
C23_NoKeysFallsBackToProduct ==
    (PreFilterDone /\ blk.in.join_conditions = <<>>) =>
        /\ Len(blk.sqls) = 1
        /\ \A i \in DOMAIN blk.sqls : blk.sqls[i].op \notin {"group by", "inner join using"}
        /\ blk.sqls[1].output_table_name = "__splink__total_of_block_counts"
        /\ blk.out # None
        /\ blk.out = Some(IF blk.in.two_dataset_link_only
                          THEN Len(blk.in.t1) * Len(blk.in.t2)
                          ELSE (Len(blk.in.t1) + Len(blk.in.t2)) * (Len(blk.in.t1) + Len(blk.in.t2)))

\* a link of a table of two rows to a table of one row, estimated without
\* keys: 2
C23_Witness ==
    /\ PreFilterDone
    /\ blk.in.join_conditions = <<>>
    /\ blk.in.two_dataset_link_only
    /\ Len(blk.in.t1) = 2 /\ Len(blk.in.t2) = 1
    /\ blk.out = Some(2)

(***************************************************************************)
(* Claims about the waterfall records (SpecWaterfall), continued.          *)
(***************************************************************************)

\* C24: the prior record is built for every prior probability p from 0 to 1:
\* building it never fails, its bayes_factor is p / (1 - p), infinite when
\* p = 1, and its log2_bayes_factor is the base 2 logarithm of that value.
C24_PriorRecordAlwaysBuilt ==
    wf.phase = "record" =>
        LET p == wf.settings_obj.proportion_of_matches
        IN  /\ wf.err = "none"
            /\ wf.out[1].column_name = <<"Prior">>
            /\ wf.out[1].bayes_factor = IF p.n = p.d THEN Inf ELSE Frac(p.n, p.d - p.n)
            /\ MathLog2(wf.out[1].bayes_factor).err = "none"
            /\ wf.out[1].log2_bayes_factor = MathLog2(wf.out[1].bayes_factor).val

\* the records of the output that are flagged as term frequency adjustments
TfRecords == {i \in DOMAIN wf.out : wf.out[i].term_frequency_adjustment = Some(TRUE)}

\* C25: for a comparison whose selected level has a term frequency
\* adjustment, the adjustment record's bayes_factor is the value of the
\* scored record's adjustment field for that comparison, its
\* log2_bayes_factor is the base 2 logarithm of that value, its m and u
\* probabilities are none, it is flagged as a term frequency adjustment, and
\* its description says "more likely" with the factor when the factor is at
\* least 1 and "less likely" with the reciprocal of the factor otherwise.
C25_TfRecordReadsAdjustment ==
    OneRecordDone =>
        /\ \A j \in DOMAIN wf.settings_obj.comparisons :
               LET name == wf.settings_obj.comparisons[j].comparison_name
               IN  HasTf(wf.settings_obj, name, wf.records[1].gamma) =>
                       \E i \in TfRecords : wf.out[i].column_name = <<"tf_", name>>
        /\ \A i \in TfRecords :
               LET rec == wf.out[i]
                   name == rec.column_name[2]
                   bf == wf.records[1].bf_tf_adj[name]
               IN  /\ HasTf(wf.settings_obj, name, wf.records[1].gamma)
                   /\ rec.bayes_factor = bf
                   /\ rec.log2_bayes_factor = Fin(Log2Exact(bf.n, bf.d))
                   /\ rec.m_probability = None
                   /\ rec.u_probability = None
                   /\ bf.n >= bf.d =>
                          /\ rec.bayes_factor_description[1].text = "times more likely to be a match"
                          /\ rec.bayes_factor_description[1].factor = (100 * bf.n) \div bf.d
                   /\ bf.n < bf.d =>
                          /\ rec.bayes_factor_description[1].text = "times less likely to be a match"
                          /\ rec.bayes_factor_description[1].factor = (100 * bf.d) \div bf.n

\* one adjustment of 1/4 (4.00 times less likely) and one of exactly 1, each
\* different from the Bayes factor of its level
C25_Witness ==
    /\ OneRecordDone
    /\ \E i, k \in TfRecords :
        /\ wf.out[i].bayes_factor = Frac(1, 4)
        /\ wf.out[i].bayes_factor_description[1].factor = 400
        /\ wf.out[i].bayes_factor # wf.out[i - 1].bayes_factor
        /\ wf.out[k].bayes_factor = Frac(1, 1)
        /\ wf.out[k].bayes_factor_description[1].text = "times more likely to be a match"

\* the records of the output that are comparison records
ComparisonRecordsOf == {i \in DOMAIN wf.out : wf.out[i].term_frequency_adjustment = Some(FALSE)}

\* C29: every comparison record, whether or not a term frequency adjustment
\* record follows it, carries the label, the predicate, the Bayes factor,
\* its base 2 logarithm, the m and u probabilities and the description of
\* the Bayes factor exactly as the selected level defines them.
C29_ComparisonRecordAsLevelDefines ==
    OneRecordDone =>
        \A i \in ComparisonRecordsOf :
            LET rec == wf.out[i]
                cl == SelectedLevel(wf.settings_obj, rec.column_name[1], wf.records[1].gamma)
            IN  /\ rec.label_for_charts = <<cl.label_for_charts>>
                /\ rec.sql_condition = Some(cl.sql_condition)
                /\ rec.bayes_factor = cl.bayes_factor
                /\ rec.log2_bayes_factor = cl.log2_bayes_factor
                /\ rec.m_probability = Some(cl.m_probability)
                /\ rec.u_probability = Some(cl.u_probability)
                /\ rec.bayes_factor_description = Some(cl.bayes_factor_description)

(***************************************************************************)
(* Claims about the linker given to the blocking analysis (SpecLinker).    *)
(***************************************************************************)

\* C26: cumulative_comparisons_generated_by_blocking_rules works on a deep
\* copy of the linker: after the call has returned or raised, the caller's
\* linker has the blocking rules, the retain-columns settings, the term
\* frequency adjustment columns and the analyse-blocking flag it had before.
C26_CallerLinkerUnchanged ==
    Cumulative =>
        /\ blk.heap["linker"] = blk.in.heap["linker"]
        /\ blk.heap[blk.heap["linker"].settings_obj] = blk.in.heap["settings"]
        /\ ~blk.heap["linker"].analyse_blocking_mode

\* a call with blocking rules of its own has raised: the copy holds the
\* adjusted settings and the flag, the caller's linker its own
C26_Witness ==
    /\ Cumulative
    /\ blk.in.blocking_rules = <<"1=1">>
    /\ blk.err # "none"
    /\ blk.heap["linker_copy"].analyse_blocking_mode
    /\ blk.heap["settings_copy"].blocking_rules_to_generate_predictions = <<"1=1">>
    /\ blk.heap["settings"].blocking_rules_to_generate_predictions = SettingsRules
    /\ blk.heap["settings"].retain_matching_columns
    /\ ~blk.heap["settings_copy"].retain_matching_columns
    /\ blk.heap["settings"].tf_adjustment_column # blk.heap["settings_copy"].tf_adjustment_column

(***************************************************************************)
(* Claims about register_multiple_tables (SpecRegister).                   *)
(***************************************************************************)

\* the positions of the frames whose alias names a table of the backend
ExistingAliases(c) ==
    {i \in DOMAIN c.input_tables :
        ~c.input_tables[i].is_str /\ Exists(c.before, W(c.input_aliases[i]))}

Range(s) == {s[i] : i \in DOMAIN s}

\* C27: register_multiple_tables with overwrite=False is all or nothing: when
\* the alias of some input that is not a string names a table of the
\* backend it raises an error that names every such alias, and then no table
\* has been registered and none deleted; when it returns, the result maps
\* every alias to a handle; and an input given as a table name is never
\* checked, deleted or registered again, and its table is left as it was.
C27_RegisterIsAllOrNothing ==
    \A n \in DOMAIN calls :
        LET c == calls[n]
        IN  ~c.overwrite =>
              /\ ExistingAliases(c) # {} =>
                    /\ c.out.err = "ValueError"
                    /\ Range(c.out.existing_tables)
                          = {c.input_aliases[i] : i \in ExistingAliases(c)}
                    /\ c.out.registered = <<>>
                    /\ c.out.deleted = <<>>
                    /\ tables = c.before
              /\ ExistingAliases(c) = {} => c.out.err = "none"
              /\ c.out.err = "none" =>
                    \A i \in DOMAIN c.input_aliases :
                        /\ c.input_aliases[i] \in DOMAIN c.out.result
                        /\ c.out.result[c.input_aliases[i]].templated_name = c.input_aliases[i]
              /\ \A i \in DOMAIN c.input_tables :
                    c.input_tables[i].is_str =>
                        /\ i \notin Range(c.out.checked) \cup Range(c.out.deleted)
                                       \cup Range(c.out.registered)
                        /\ \A tb \in c.before :
                               tb.name = W(c.input_tables[i].name) => tb \in tables

\* a call without overwrite on a frame whose alias exists and a table name
\* has raised; nothing was registered
C27_Witness ==
    /\ Len(calls) = 1
    /\ ~calls[1].overwrite
    /\ calls[1].out.err = "ValueError"
    /\ Len(calls[1].input_tables) = 2
    /\ calls[1].input_tables[1].is_str
    /\ ~calls[1].input_tables[2].is_str
    /\ calls[1].out.existing_tables = <<"b">>
    /\ tables = calls[1].before

(***************************************************************************)
(* Claims about the comparison templates (SpecTemplates), continued.       *)
(***************************************************************************)

\* C30: for every combination of arguments of the date comparison, empty
\* lists of thresholds for levenshtein, jaro, jaro-winkler and datediff
\* included, the comparison levels built start with the null level and end
\* with exactly one 'anything else' level, as the description, which always
\* ends with 'anything else', says.
C30_DateLevelsEndWithElse ==
    (tpl.phase = "date" /\ tpl.err = "none") =>
        LET levels == tpl.comparison_levels
            desc == tpl.comparison_description
        IN  /\ desc[Len(desc)] = "anything else"
            /\ levels[1].kind = "null"
            /\ levels[Len(levels)].kind = "else"
            /\ Cardinality({i \in DOMAIN levels : levels[i].kind = "else"}) = 1

====
